---- MODULE Spec2Model ----
(***************************************************************************)
(* Feed ingestion and cache refresh pipeline of src/lib/rss.server.ts:     *)
(* getRSSEntries (the coordinator), acquireFeedRefreshLock /               *)
(* releaseFeedRefreshLock (the refresh lock), getOrCreateFeed and          *)
(* storeRSSEntriesWithTransaction (the store accessor), over the tables    *)
(* rss_feeds, rss_entries and rss_locks; further the paginated read of     *)
(* src/app/api/rss/paginate/route.tsx and the friends and comments         *)
(* mutations of src/convex, each under a specification of its own.         *)
(*                                                                         *)
(* Every await of the source is one step of a caller: the step performs    *)
(* the awaited query (or the outbound fetch) atomically and then runs the  *)
(* synchronous code that follows it up to the next await, which is where   *)
(* the values of Date.now() are captured.  Instants are epoch              *)
(* milliseconds; an ISO-8601 string produced by Date.toISOString() is      *)
(* represented by the instant it denotes (such strings have a fixed width, *)
(* so the store's ORDER BY on them is the order of the instants).          *)
(***************************************************************************)
EXTENDS Integers, Sequences, FiniteSets, TLC

\* ---------------------------------------------------------------- bounds
\* milliseconds that pass in a behaviour
MaxTicks == 1
\* number of store accesses that reject in a behaviour
MaxDbErrors == 1
\* number of waits between the lock operations of a behaviour of SpecLock
MaxWaits == 3
\* longest list of entries passed to storeRSSEntries under SpecStore
MaxEntries == 2
\* largest number of item / entry nodes of a document under SpecParse
MaxItems == 2
\* largest number of enclosures of an item under SpecImage
MaxEnclosures == 2
\* calls of storeRSSEntriesWithTransaction in a behaviour of SpecDb
MaxStores == 2
\* friends documents inserted in a behaviour of SpecFriends
MaxFriendships == 2
\* comments inserted in a behaviour of SpecComments
MaxComments == 3
\* largest number of stored entries under SpecPage
MaxStored == 8
\* largest pageSize a client uses under SpecPage
MaxPageSize == 3

\* ------------------------------------------------------ program constants
\* const fourHoursInMs = 4 * 60 * 60 * 1000
FourHoursInMs == 14400000
\* Date.now() + 60000: the lock expires after 60 seconds
LockExpiryMs == 60000
\* entry.description?.slice(0, 200): characters of a description that are stored
DescriptionLimit == 200
\* const chunkSize = 100: entries of one INSERT statement
ChunkSize == 100
\* content.length > 1000: the longest comment addComment accepts
CommentLimit == 1000

\* the requests that call getRSSEntries, each once, at any time
Callers == {"r1", "r2"}
\* the one feed URL the callers ask for, and the title they pass
FeedUrl == "feed"
\* the instant at which a behaviour starts
StartTime == FourHoursInMs
\* the connections of the pool
Connections == {1, 2}

VARIABLES
    now,          \* Date.now(), epoch milliseconds
    rss_feeds,    \* table rss_feeds: set of rows [id, feed_url, last_fetched]
    rss_entries,  \* table rss_entries: rows [feed_id, guid, pub_date] in insertion order
    rss_locks,    \* table rss_locks: set of rows [lock_key, expires_at]
    call,         \* per caller: position and local variables of the call in progress
    hist,         \* per caller: what the call in progress has done so far (observation only)
    nticks,       \* clock advances so far
    nerrors,      \* store accesses that rejected so far
    probe,        \* the last call of a function driven on its own (its input,
                  \* the state it ran in, its result); NoProbe under Spec
    pool,         \* the connection pool: per connection, whether it is checked
                  \* out and the transaction open on it; NoPool where no
                  \* connection is followed
    friends,      \* Convex table friends: set of documents
    comments      \* Convex table comments: set of documents

vars == <<now, rss_feeds, rss_entries, rss_locks, call, hist, nticks, nerrors, probe,
          pool, friends, comments>>

\* no function has been driven on its own
NoProbe == [op |-> "none"]
\* no connection of the pool is followed
NoPool == <<>>

\* ------------------------------------------------------------------ dates
\* milliseconds of a day, of a second and of a minute in Date arithmetic
DayMs == 86400000
SecondMs == 1000
MinuteMs == 60000

\* A date string, by what the regular expressions of formatDate and the Date
\* constructor tell apart:
\*   kind  "rfc822"   `Wed, 12 Dec 2018 14:00:00 -0500`
\*         "dateTime" `2018-12-12T14:00:00`, with or without fraction and zone
\*         "date"     `2018-12-12`
\*         "garbage"  anything else, the empty string included
\*   day   the calendar day written, as days since the epoch; -1 when the
\*         digits are no calendar day (month 13, day 45)
\*   sec   the time of day written, in seconds
\*   frac  the milliseconds written after the seconds; -1 when none is written
\*   zone  the zone suffix written; "none" when none is written
DateString(kind, day, sec, frac, zone) ==
    [kind |-> kind, day |-> day, sec |-> sec, frac |-> frac, zone |-> zone]

\* the empty string, `not a date`, ...
GarbageString == DateString("garbage", -1, 0, -1, "none")

\* minutes east of UTC that a zone suffix denotes
ZoneMinutes(zone) ==
    CASE zone = "+0100" -> 60
      [] zone = "-0500" -> 0 - 300
      [] OTHER -> 0

\* the time zones the host may run in, in minutes east of UTC
HostZones == {0 - 300, 0, 60}

\* Date.prototype.toISOString() of the instant ms: `YYYY-MM-DDTHH:MM:SS.sssZ`
toISOString(ms) ==
    DateString("dateTime", ms \div DayMs, (ms % DayMs) \div SecondMs, ms % SecondMs, "Z")

\* the instant an ISO string with Z denotes
IsoInstant(str) == str.day * DayMs + str.sec * SecondMs + (IF str.frac < 0 THEN 0 ELSE str.frac)

\* new Date(string).getTime() on a host tz minutes east of UTC: NaN for what is
\* no date; a string without zone is UTC in the date-only form and local time
\* in every other form
DateParse(str, tz) ==
    IF str.kind = "garbage" \/ str.day < 0
    THEN [nan |-> TRUE, ms |-> 0]
    ELSE LET east == IF str.zone = "none"
                     THEN (IF str.kind = "date" THEN 0 ELSE tz)
                     ELSE ZoneMinutes(str.zone)
         IN [nan |-> FALSE, ms |-> IsoInstant(str) - east * MinuteMs]

\* a value passed as dateStr: a string, a Date object (ms = -1: an invalid
\* Date) or a falsy value (null, undefined)
StringValue(str) == [type |-> "string", str |-> str, ms |-> 0]
DateObject(ms) == [type |-> "Date", str |-> GarbageString, ms |-> ms]
NullValue == [type |-> "null", str |-> GarbageString, ms |-> 0]

\* formatDate(dateStr) at instant t on a host tz minutes east of UTC.
\* The RFC 822 test only logs.  toISOString() of an invalid Date throws, and
\* the catch returns new Date().toISOString().
formatDate(dateStr, t, tz) ==
    IF dateStr.type = "Date" /\ dateStr.ms < 0
    THEN toISOString(t)
    ELSE LET dateString == IF dateStr.type = "string" THEN dateStr.str
                           ELSE IF dateStr.type = "Date" THEN toISOString(dateStr.ms)
                           ELSE GarbageString
             \* /^\d{4}-\d{2}-\d{2}T\d{2}:\d{2}:\d{2}$/ : `${dateString}Z`
             withZ == IF dateString.kind = "dateTime" /\ dateString.frac < 0
                         /\ dateString.zone = "none"
                      THEN [dateString EXCEPT !.zone = "Z"]
                      ELSE dateString
             \* /^\d{4}-\d{2}-\d{2}$/ : `${dateString}T00:00:00Z`
             normalizedDateString ==
                      IF dateString.kind = "date"
                      THEN DateString("dateTime", dateString.day, 0, -1, "Z")
                      ELSE withZ
             date == DateParse(normalizedDateString, tz)
         IN IF date.nan THEN toISOString(t) ELSE toISOString(date.ms)

\* ------------------------------------------------------------ feed items
\* a text of n characters
Text(n) == [i \in 1..n |-> "x"]

\* RSSItem as far as the store keeps it apart: guid, description and pubDate.
\* A guid is <<kind, n>>: <<"item", n>> for a guid of the source,
\* <<"error", t>> for the `error-${Date.now()}` guid of createFallbackFeed.
\* pubDate is the string Date.toISOString() gives for an instant, written as
\* that instant.  title, link and image are carried like the description
\* without the cut.
ItemOld == [guid |-> <<"item", 1>>, description |-> Text(1), pubDate |-> 1000]
ItemOldRedated == [guid |-> <<"item", 1>>, description |-> Text(2), pubDate |-> 1500]
ItemNew == [guid |-> <<"item", 2>>, description |-> Text(0), pubDate |-> 2000]
\* the valid item lists feed.items a parsed document can yield, in source
\* order: no item; two items, oldest first, the first a guid the store may
\* hold under another date; the same guid twice
FeedLists == {<<>>, <<ItemOldRedated, ItemNew>>, <<ItemOld, ItemOld>>}

\* createFallbackFeed(url, error).items at instant t
createFallbackFeed(t) == <<[guid |-> <<"error", t>>, description |-> Text(3), pubDate |-> t]>>

\* what the network and the parser yield for one fetch: the valid items of
\* the parsed document, or a failure (network error, timeout, non-2xx status,
\* malformed XML, unsupported root element)
FetchOutcomes ==
    {[ok |-> TRUE, items |-> l] : l \in FeedLists} \cup {[ok |-> FALSE, items |-> <<>>]}

\* fetchAndParseFeed(url).items at instant t: never throws, a failure is
\* turned into the fallback feed
fetchAndParseFeed(outcome, t) ==
    IF outcome.ok THEN outcome.items ELSE createFallbackFeed(t)

\* ------------------------------------------------------------ the store
\* const lockKey = `refresh_lock:${feedUrl}`
LockKey(feedUrl) == <<"refresh_lock:", feedUrl>>

\* SELECT ... FROM rss_feeds WHERE feed_url = ?
SelectFeeds(feedUrl) == {r \in rss_feeds : r.feed_url = feedUrl}

\* SELECT guid FROM rss_entries WHERE feed_id = ?
SelectGuids(feedId) ==
    {rss_entries[i].guid : i \in {j \in 1..Len(rss_entries) : rss_entries[j].feed_id = feedId}}

Range(s) == {s[i] : i \in 1..Len(s)}

\* Array.prototype.filter over the rows/items satisfying membership in `keep`
FilterSeq(s, keep) == SelectSeq(s, LAMBDA e : e \in keep)

RECURSIVE OrderByPubDateDesc(_)
\* ORDER BY pub_date DESC (rows of equal pub_date keep their insertion order)
OrderByPubDateDesc(rows) ==
    IF rows = <<>> THEN <<>>
    ELSE LET n == Len(rows)
             init == OrderByPubDateDesc(SubSeq(rows, 1, n - 1))
             e == rows[n]
             k == Cardinality({i \in 1..Len(init) : init[i].pub_date >= e.pub_date})
         IN SubSeq(init, 1, k) \o <<e>> \o SubSeq(init, k + 1, Len(init))

\* an entries read that finds no row
SelectEntriesNone(feedId) == <<>>

\* SELECT guid, ..., pub_date as pubDate FROM rss_entries WHERE feed_id = ?
\* ORDER BY pub_date DESC, mapped to RSSItem as the return statement does
SelectEntries(feedId) ==
    LET rows == OrderByPubDateDesc(
                    FilterSeq(rss_entries, {r \in Range(rss_entries) : r.feed_id = feedId}))
    IN [i \in 1..Len(rows) |->
           [guid |-> rows[i].guid, description |-> rows[i].description,
            pubDate |-> IsoInstant(formatDate(StringValue(toISOString(rows[i].pub_date)), now, 0))]]

\* an upsert that never touches an existing row
LockUpsertInsertOnly(lockKey, expiryTime, nowParam) ==
    IF {r \in rss_locks : r.lock_key = lockKey} = {}
    THEN [rows |-> rss_locks \cup {[lock_key |-> lockKey, expires_at |-> expiryTime]},
          affectedRows |-> 1]
    ELSE [rows |-> rss_locks, affectedRows |-> 0]

\* INSERT INTO rss_locks (lock_key, expires_at, created_at) VALUES (?, ?, ?)
\* ON DUPLICATE KEY UPDATE
\*   lock_key   = IF(expires_at < ?, VALUES(lock_key), lock_key),
\*   expires_at = IF(expires_at < ?, VALUES(expires_at), expires_at)
\* with the parameters [lockKey, expiryTime, new Date(), Date.now(), expiryTime]:
\* the fourth (nowParam) fills the first IF, the fifth (expiryTime again) the
\* second.  affectedRows is 1 for an inserted row, 2 for an existing row that
\* was changed, 0 for an existing row set to its current values.
LockUpsert(lockKey, expiryTime, nowParam) ==
    LET existing == {r \in rss_locks : r.lock_key = lockKey}
    IN IF existing = {}
       THEN [rows |-> rss_locks \cup {[lock_key |-> lockKey, expires_at |-> expiryTime]},
             affectedRows |-> 1]
       ELSE LET old == CHOOSE r \in existing : TRUE
                key1 == IF old.expires_at < nowParam THEN lockKey ELSE old.lock_key
                exp1 == IF old.expires_at < expiryTime THEN expiryTime ELSE old.expires_at
                new == [lock_key |-> key1, expires_at |-> exp1]
            IN [rows |-> (rss_locks \ {old}) \cup {new},
                affectedRows |-> IF new = old THEN 0 ELSE 2]

\* DELETE FROM rss_locks WHERE lock_key = ?
LockDelete(lockKey) == {r \in rss_locks : r.lock_key # lockKey}

\* a filter that lets every entry through
NewEntriesUnfiltered(entries, existingGuids) == entries

\* const newEntries = entries.filter(entry => !existingGuids.has(entry.guid))
NewEntries(entries, existingGuids) ==
    FilterSeq(entries, {e \in Range(entries) : e.guid \notin existingGuids})

\* String(entry.description?.slice(0, 200) || '')
Slice(text, limit) == SubSeq(text, 1, IF Len(text) < limit THEN Len(text) ELSE limit)

\* the row of rss_entries written for an entry: the description cut, the
\* pubDate through formatDate (the ISO strings that stand here as instants
\* carry a Z, so the host zone passed does not enter)
EntryRow(feedId, item) ==
    [feed_id |-> feedId, guid |-> item.guid,
     description |-> Slice(item.description, DescriptionLimit),
     pub_date |-> IsoInstant(formatDate(StringValue(toISOString(item.pubDate)), now, 0))]

\* a write that replaces the rows of the feed by the new entries
InsertEntriesReplacing(feedId, newEntries) ==
    FilterSeq(rss_entries, {r \in Range(rss_entries) : r.feed_id # feedId})
        \o [i \in 1..Len(newEntries) |-> EntryRow(feedId, newEntries[i])]

\* INSERT INTO rss_entries (feed_id, guid, ..., pub_date, ...) VALUES ... :
\* one row per new entry, in the order of the list
InsertEntries(feedId, newEntries) ==
    rss_entries \o [i \in 1..Len(newEntries) |-> EntryRow(feedId, newEntries[i])]

\* a store that leaves last_fetched as it was
UpdateLastFetchedSkipped(feedId, currentTimeMs) == rss_feeds

\* a store that writes a last_fetched one millisecond early
UpdateLastFetchedEarlier(feedId, currentTimeMs) ==
    {IF r.id = feedId THEN [r EXCEPT !.last_fetched = currentTimeMs - 1] ELSE r : r \in rss_feeds}

\* UPDATE rss_feeds SET updated_at = ?, last_fetched = ? WHERE id = ?
UpdateLastFetched(feedId, currentTimeMs) ==
    {IF r.id = feedId THEN [r EXCEPT !.last_fetched = currentTimeMs] ELSE r : r \in rss_feeds}

\* a staleness test that counts exactly four hours as fresh
IsFreshInclusive(currentTime, lastFetchedMs) == currentTime - lastFetchedMs <= FourHoursInMs

\* timeSinceLastFetch < fourHoursInMs
IsFresh(currentTime, lastFetchedMs) == currentTime - lastFetchedMs < FourHoursInMs

\* ------------------------------------------------------- calls in progress
\* the local variables of a call; pc is the await the call is suspended at
\* ("lookup": the first query of getRSSEntries is still to run)
NewCall ==
    [pc |-> "lookup", feedId |-> 0, currentTime |-> 0,
     shouldFetchFresh |-> TRUE, lockAcquired |-> FALSE, expiryTime |-> 0,
     createTime |-> 0, items |-> <<>>, existingGuids |-> {}, storeTime |-> 0,
     ctx |-> "none", pending |-> FALSE, result |-> <<>>, outcome |-> "none"]

\* what a call has done so far:
\*   lookup      what the feed lookup found: "none" (not made, or rejected),
\*               "absent", "found"
\*   seen        the last_fetched of the row it found
\*   marked      shouldFetchFresh as the lookup left it
\*   fetches     outbound fetches made
\*   got         number of items the last fetch yielded
\*   fetchFailed some fetch failed and yielded the fallback feed
\*   acquires    calls of acquireFeedRefreshLock
\*   lockError   the upsert of acquireFeedRefreshLock rejected
\*   releases    calls of releaseFeedRefreshLock
\*   writes      store writes of storeRSSEntriesWithTransaction that succeeded
\*   dbFailed    some store access rejected
\*   after       the callers that had returned when the call started
\*   stored      number of rss_entries rows when the call started
\*   path        the return statement taken: "store" (the mapped rows),
\*               "empty" (no row and nothing fetched), "fallback" (the fresh
\*               items of the empty-store fallback), "lastResort"
NoHist ==
    [lookup |-> "none", seen |-> 0, marked |-> FALSE, fetches |-> 0, got |-> 0,
     fetchFailed |-> FALSE, acquires |-> 0, releases |-> 0, writes |-> 0,
     dbFailed |-> FALSE, after |-> {}, stored |-> 0, path |-> "none",
     lockError |-> FALSE]

\* the call record once the call has returned `result`: its locals are gone,
\* what stays is what the claims observe of the finished call
Return(k, result) ==
    [NewCall EXCEPT !.pc = "done", !.currentTime = k.currentTime,
                     !.lockAcquired = k.lockAcquired, !.outcome = "returned",
                     !.result = result]

\* the call record once the call has thrown to its caller
Throw(k) ==
    [NewCall EXCEPT !.pc = "done", !.currentTime = k.currentTime,
                     !.lockAcquired = k.lockAcquired, !.outcome = "threw"]

\* an entries read placed outside the outer try block
CatchReadOutsideTry(site, ctx) ==
    CASE site \in {"lookup", "createSelect", "createInsert"} -> "lastResort"
      [] site = "acquire" -> "notAcquired"
      [] site = "recheck" -> "releasePending"
      [] site \in {"storeSelect", "storeWrite"} /\ ctx = "lock" -> "release"
      [] site \in {"storeSelect", "storeWrite"} /\ ctx = "fallback" -> "returnEntries"
      [] site = "release" -> "swallow"
      [] OTHER -> "propagate"

\* an acquireFeedRefreshLock without its catch
CatchAcquireRethrows(site, ctx) ==
    CASE site \in {"lookup", "createSelect", "createInsert", "readEntries"} -> "lastResort"
      [] site = "recheck" -> "releasePending"
      [] site \in {"storeSelect", "storeWrite"} /\ ctx = "lock" -> "release"
      [] site \in {"storeSelect", "storeWrite"} /\ ctx = "fallback" -> "returnEntries"
      [] site = "release" -> "swallow"
      [] OTHER -> "propagate"

\* a getOrCreateFeed whose refused INSERT reaches the caller of getRSSEntries
CatchCreateRethrows(site, ctx) ==
    CASE site \in {"lookup", "createSelect", "readEntries"} -> "lastResort"
      [] site = "acquire" -> "notAcquired"
      [] site = "recheck" -> "releasePending"
      [] site \in {"storeSelect", "storeWrite"} /\ ctx = "lock" -> "release"
      [] site \in {"storeSelect", "storeWrite"} /\ ctx = "fallback" -> "returnEntries"
      [] site = "release" -> "swallow"
      [] OTHER -> "propagate"

\* a re-check whose rejection skips the finally
CatchRecheckNoFinally(site, ctx) ==
    CASE site \in {"lookup", "createSelect", "createInsert", "readEntries", "recheck"} -> "lastResort"
      [] site = "acquire" -> "notAcquired"
      [] site \in {"storeSelect", "storeWrite"} /\ ctx = "lock" -> "release"
      [] site \in {"storeSelect", "storeWrite"} /\ ctx = "fallback" -> "returnEntries"
      [] site = "release" -> "swallow"
      [] OTHER -> "propagate"

\* Where control continues when the await at `site` rejects:
\*   lookup, createSelect, createInsert, readEntries: the outer catch of
\*     getRSSEntries, which makes the last-resort fetch;
\*   acquire: the catch of acquireFeedRefreshLock, which returns false;
\*   recheck: the finally (release), the exception still pending;
\*   storeSelect, storeWrite: under the lock the catch around the fetch, then the
\*     finally; in the empty-store fallback the catch around it, then the return
\*     of the (empty) entries;
\*   release: the catch of releaseFeedRefreshLock, which swallows it;
\*   an await that no try block encloses would propagate to the caller.
Catch(site, ctx) ==
    CASE site \in {"lookup", "createSelect", "createInsert", "readEntries"} -> "lastResort"
      [] site = "acquire" -> "notAcquired"
      [] site = "recheck" -> "releasePending"
      [] site \in {"storeSelect", "storeWrite"} /\ ctx = "lock" -> "release"
      [] site \in {"storeSelect", "storeWrite"} /\ ctx = "fallback" -> "returnEntries"
      [] site = "release" -> "swallow"
      [] OTHER -> "propagate"

\* the call record after the await at `site` rejected
Raise(c, site) ==
    LET to == Catch(site, call[c].ctx)
        k == call[c]
    IN CASE to = "lastResort" -> [k EXCEPT !.pc = "lastResort"]
         [] to = "notAcquired" -> [k EXCEPT !.pc = "readEntries", !.lockAcquired = FALSE]
         [] to = "releasePending" -> [k EXCEPT !.pc = "release", !.pending = TRUE]
         [] to = "release" -> [k EXCEPT !.pc = "release"]
         [] to = "returnEntries" -> Return(k, <<>>)
         [] to = "swallow" -> [k EXCEPT !.pc = IF k.pending THEN "lastResort" ELSE "readEntries"]
         [] OTHER -> Throw(k)

\* the observations of a call at its start: who had returned, and how many
\* rows rss_entries held
Started ==
    [NoHist EXCEPT !.after = {d \in Callers : call[d].pc = "done"},
                   !.stored = Len(rss_entries)]

\* a query of executeQuery / executeBatchTransaction rejects (no connection,
\* failed ping, failed statement, rolled-back transaction): nothing is written
DbError(c, site) ==
    /\ call[c].pc = site
    /\ nerrors < MaxDbErrors
    /\ nerrors' = nerrors + 1
    /\ call' = [call EXCEPT ![c] = Raise(c, site)]
    /\ hist' = [hist EXCEPT ![c] =
                    [(IF site = "lookup" THEN Started ELSE @) EXCEPT
                        !.dbFailed = TRUE,
                        !.releases = @ + (IF site = "release" THEN 1 ELSE 0),
                        !.acquires = @ + (IF site = "acquire" THEN 1 ELSE 0),
                        !.lockError = @ \/ site = "acquire",
                        !.path = IF Catch(site, call[c].ctx) = "returnEntries"
                                 THEN "empty" ELSE @]]
    /\ UNCHANGED <<pool, friends, comments, probe, now, rss_feeds, rss_entries, rss_locks, nticks>>

\* ------------------------------------------------------------ initial state
FeedRow(lastFetched) == [id |-> 1, feed_url |-> FeedUrl, last_fetched |-> lastFetched]

Init ==
    /\ now = StartTime
    /\ rss_feeds \in {{}, {FeedRow(0)}, {FeedRow(1)}}
    /\ rss_entries \in IF rss_feeds = {} THEN {<<>>} ELSE {<<>>, <<EntryRow(1, ItemOld)>>}
    /\ rss_locks = {}
    /\ call = [c \in Callers |-> NewCall]
    /\ hist = [c \in Callers |-> NoHist]
    /\ nticks = 0
    /\ nerrors = 0
    /\ probe = NoProbe
    /\ pool = NoPool
    /\ friends = {}
    /\ comments = {}

\* --------------------------------------------------------------- actions
\* getRSSEntries(postTitle, feedUrl) up to its second await:
\* SELECT id, ..., last_fetched FROM rss_feeds WHERE feed_url = ?, then the
\* staleness decision; when a refresh is needed acquireFeedRefreshLock starts
\* in the same synchronous run and computes expiryTime
getRSSEntries(c) ==
    /\ call[c].pc = "lookup"
    /\ LET feeds == SelectFeeds(FeedUrl)
       IN IF feeds # {}
          THEN \E row \in feeds :
                 LET fresh == IsFresh(now, row.last_fetched)
                 IN /\ call' = [call EXCEPT ![c] = [@ EXCEPT
                               !.pc = IF fresh THEN "readEntries" ELSE "acquire",
                               !.feedId = row.id,
                               !.currentTime = now,
                               !.shouldFetchFresh = ~fresh,
                               !.expiryTime = IF fresh THEN 0 ELSE now + LockExpiryMs]]
                    /\ hist' = [hist EXCEPT ![c] = [Started EXCEPT
                                  !.lookup = "found", !.seen = row.last_fetched,
                                  !.marked = ~fresh]]
          ELSE /\ call' = [call EXCEPT ![c] = [@ EXCEPT !.pc = "createSelect",
                                                         !.currentTime = now]]
               /\ hist' = [hist EXCEPT ![c] = [Started EXCEPT !.lookup = "absent",
                                                               !.marked = TRUE]]
    /\ UNCHANGED <<pool, friends, comments, probe, now, rss_feeds, rss_entries, rss_locks, nticks, nerrors>>

\* getOrCreateFeed: SELECT id FROM rss_feeds WHERE feed_url = ?
CreateSelect(c) ==
    /\ call[c].pc = "createSelect"
    /\ LET rows == SelectFeeds(FeedUrl)
       IN IF rows # {}
          THEN \E row \in rows :
                 call' = [call EXCEPT ![c] = [@ EXCEPT !.pc = "acquire", !.feedId = row.id,
                                                       !.expiryTime = now + LockExpiryMs]]
          ELSE call' = [call EXCEPT ![c] = [@ EXCEPT !.pc = "createInsert",
                                                     !.createTime = now]]
    /\ UNCHANGED <<pool, friends, comments, probe, now, rss_feeds, rss_entries, rss_locks, hist, nticks, nerrors>>

\* a table rss_feeds without the unique key on feed_url
FeedUrlNotUnique == FALSE

\* rss_feeds.feed_url is unique: a second row for a URL is rejected
FeedUrlUnique == TRUE

\* getOrCreateFeed: INSERT INTO rss_feeds (feed_url, title, last_fetched, ...)
CreateInsert(c) ==
    /\ call[c].pc = "createInsert"
    /\ IF FeedUrlUnique /\ SelectFeeds(FeedUrl) # {}
       THEN /\ call' = [call EXCEPT ![c] = Raise(c, "createInsert")]
            /\ hist' = [hist EXCEPT ![c].dbFailed = TRUE]
            /\ UNCHANGED rss_feeds
       ELSE LET insertId == Cardinality(rss_feeds) + 1
            IN /\ rss_feeds' = rss_feeds \cup
                     {[id |-> insertId, feed_url |-> FeedUrl,
                       last_fetched |-> call[c].createTime]}
               /\ call' = [call EXCEPT ![c] = [@ EXCEPT !.pc = "acquire",
                                                         !.feedId = insertId,
                                                         !.expiryTime = now + LockExpiryMs]]
               /\ UNCHANGED hist
    /\ UNCHANGED <<pool, friends, comments, probe, now, rss_entries, rss_locks, nticks, nerrors>>

\* acquireFeedRefreshLock: the upsert runs; return result.affectedRows > 0
acquireFeedRefreshLock(c) ==
    /\ call[c].pc = "acquire"
    /\ LET r == LockUpsert(LockKey(FeedUrl), call[c].expiryTime,
                           call[c].expiryTime - LockExpiryMs)
           lockAcquired == r.affectedRows > 0
       IN /\ rss_locks' = r.rows
          /\ call' = [call EXCEPT ![c] = [@ EXCEPT
                        !.pc = IF lockAcquired THEN "recheck" ELSE "readEntries",
                        !.lockAcquired = lockAcquired]]
    /\ hist' = [hist EXCEPT ![c].acquires = @ + 1]
    /\ UNCHANGED <<pool, friends, comments, probe, now, rss_feeds, rss_entries, nticks, nerrors>>

\* the double check under the lock: SELECT last_fetched FROM rss_feeds WHERE
\* feed_url = ?, compared with the currentTime taken before the lookup
Recheck(c) ==
    /\ call[c].pc = "recheck"
    /\ LET refreshCheck == SelectFeeds(FeedUrl)
       IN IF refreshCheck # {}
          THEN \E row \in refreshCheck :
                 LET fresh == IsFresh(call[c].currentTime, row.last_fetched)
                 IN call' = [call EXCEPT ![c] = [@ EXCEPT
                               !.pc = IF fresh THEN "release" ELSE "fetch",
                               !.ctx = "lock",
                               !.shouldFetchFresh = ~fresh]]
          ELSE call' = [call EXCEPT ![c] = [@ EXCEPT !.pc = "fetch", !.ctx = "lock"]]
    /\ UNCHANGED <<pool, friends, comments, probe, now, rss_feeds, rss_entries, rss_locks, hist, nticks, nerrors>>

\* const freshFeed = await fetchAndParseFeed(feedUrl) under the lock or in the
\* empty-store fallback; with items it goes on to storeRSSEntriesWithTransaction
Fetch(c) ==
    /\ call[c].pc = "fetch"
    /\ \E outcome \in FetchOutcomes :
         LET items == fetchAndParseFeed(outcome, now)
         IN /\ call' = [call EXCEPT ![c] =
                  IF Len(items) > 0
                  THEN [@ EXCEPT !.pc = "storeSelect", !.items = items]
                  ELSE IF @.ctx = "lock"
                       THEN [@ EXCEPT !.pc = "release", !.items = items]
                       ELSE Return(@, <<>>)]
            /\ hist' = [hist EXCEPT ![c].fetches = @ + 1,
                                    ![c].got = Len(items),
                                    ![c].fetchFailed = @ \/ (~outcome.ok),
                                    ![c].path = IF Len(items) = 0 /\ call[c].ctx = "fallback"
                                                THEN "empty" ELSE @]
    /\ UNCHANGED <<pool, friends, comments, probe, now, rss_feeds, rss_entries, rss_locks, nticks, nerrors>>

\* storeRSSEntriesWithTransaction: SELECT guid FROM rss_entries WHERE feed_id = ?
\* then, synchronously, the filter and the timestamps of the write
StoreSelect(c) ==
    /\ call[c].pc = "storeSelect"
    /\ call' = [call EXCEPT ![c] = [@ EXCEPT !.pc = "storeWrite",
                                             !.existingGuids = SelectGuids(call[c].feedId),
                                             !.storeTime = now]]
    /\ UNCHANGED <<pool, friends, comments, probe, now, rss_feeds, rss_entries, rss_locks, hist, nticks, nerrors>>

\* storeRSSEntriesWithTransaction: with no new entry the UPDATE of rss_feeds
\* alone, else the transaction of the INSERTs and the UPDATE
StoreWrite(c) ==
    /\ call[c].pc = "storeWrite"
    /\ LET newEntries == NewEntries(call[c].items, call[c].existingGuids)
       IN /\ rss_entries' = IF newEntries = <<>> THEN rss_entries
                            ELSE InsertEntries(call[c].feedId, newEntries)
          /\ rss_feeds' = UpdateLastFetched(call[c].feedId, call[c].storeTime)
    /\ call' = [call EXCEPT ![c] =
          IF @.ctx = "lock"
          THEN [@ EXCEPT !.pc = "release", !.items = <<>>, !.existingGuids = {},
                         !.storeTime = 0]
          ELSE Return(@, @.items)]
    /\ hist' = [hist EXCEPT ![c].writes = @ + 1,
                            ![c].path = IF call[c].ctx = "fallback" THEN "fallback" ELSE @]
    /\ UNCHANGED <<pool, friends, comments, probe, now, rss_locks, nticks, nerrors>>

\* releaseFeedRefreshLock in the finally: DELETE FROM rss_locks WHERE lock_key = ?
releaseFeedRefreshLock(c) ==
    /\ call[c].pc = "release"
    /\ rss_locks' = LockDelete(LockKey(FeedUrl))
    /\ call' = [call EXCEPT ![c] = [@ EXCEPT
                  !.pc = IF call[c].pending THEN "lastResort" ELSE "readEntries"]]
    /\ hist' = [hist EXCEPT ![c].releases = @ + 1]
    /\ UNCHANGED <<pool, friends, comments, probe, now, rss_feeds, rss_entries, nticks, nerrors>>

\* SELECT ... FROM rss_entries WHERE feed_id = ? ORDER BY pub_date DESC; an
\* empty result starts the fallback fetch, any other is mapped and returned
ReadEntries(c) ==
    /\ call[c].pc = "readEntries"
    /\ LET entries == SelectEntries(call[c].feedId)
       IN IF Len(entries) = 0
          THEN /\ call' = [call EXCEPT ![c] = [@ EXCEPT !.pc = "fetch", !.ctx = "fallback"]]
               /\ UNCHANGED hist
          ELSE /\ call' = [call EXCEPT ![c] = Return(@, entries)]
               /\ hist' = [hist EXCEPT ![c].path = "store"]
    /\ UNCHANGED <<pool, friends, comments, probe, now, rss_feeds, rss_entries, rss_locks, nticks, nerrors>>

\* the outer catch: const directFeed = await fetchAndParseFeed(feedUrl);
\* return directFeed.items
LastResort(c) ==
    /\ call[c].pc = "lastResort"
    /\ \E outcome \in FetchOutcomes :
         /\ call' = [call EXCEPT ![c] = Return(@, fetchAndParseFeed(outcome, now))]
         /\ hist' = [hist EXCEPT ![c].fetches = @ + 1,
                                 ![c].got = Len(fetchAndParseFeed(outcome, now)),
                                 ![c].fetchFailed = @ \/ (~outcome.ok),
                                 ![c].path = "lastResort"]
    /\ UNCHANGED <<pool, friends, comments, probe, now, rss_feeds, rss_entries, rss_locks, nticks, nerrors>>

\* a millisecond passes
Tick ==
    /\ nticks < MaxTicks
    /\ nticks' = nticks + 1
    /\ now' = now + 1
    /\ UNCHANGED <<pool, friends, comments, probe, rss_feeds, rss_entries, rss_locks, call, hist, nerrors>>

\* the awaits of a store access, each of which can reject
DbSites == {"lookup", "createSelect", "createInsert", "acquire", "recheck",
            "storeSelect", "storeWrite", "release", "readEntries"}

Next ==
    \/ \E c \in Callers : getRSSEntries(c)
    \/ \E c \in Callers : CreateSelect(c)
    \/ \E c \in Callers : CreateInsert(c)
    \/ \E c \in Callers : acquireFeedRefreshLock(c)
    \/ \E c \in Callers : Recheck(c)
    \/ \E c \in Callers : Fetch(c)
    \/ \E c \in Callers : StoreSelect(c)
    \/ \E c \in Callers : StoreWrite(c)
    \/ \E c \in Callers : releaseFeedRefreshLock(c)
    \/ \E c \in Callers : ReadEntries(c)
    \/ \E c \in Callers : LastResort(c)
    \/ \E c \in Callers, site \in DbSites : DbError(c, site)
    \/ Tick

Spec == Init /\ [][Next]_vars

\* the lists of at most n entries
RECURSIVE ListsUpTo(_, _)
ListsUpTo(items, n) ==
    IF n = 0 THEN {<<>>}
    ELSE LET shorter == ListsUpTo(items, n - 1)
         IN shorter \cup {Append(l, e) : l \in {k \in shorter : Len(k) = n - 1}, e \in items}

\* ---------------------------------------------- fetchAndParseFeed alone
\* the guid of an item node that has no guid, id or link: getTextContent gives ''
EmptyGuid == <<"", 0>>

\* An item / entry node as the parser hands it over: the text of its guid (or
\* id, or link), the text of its title, and whether processing it throws (a
\* node that is no object, a field whose conversion throws)
RawItems ==
    {[guid |-> g, title |-> ti, throws |-> th] :
        g \in {EmptyGuid, <<"item", 1>>, <<"item", 2>>}, ti \in {"", "t"}, th \in BOOLEAN}

\* What a fetch meets: the request fails (network error, abort after ten
\* seconds, status not ok) or yields a text; the text does not parse
\* ("malformed"), parses to neither rss.channel nor feed ("other"), or parses
\* to an RSS channel ("rss") or an Atom feed ("feed") with its nodes in order
Documents ==
    {[fetch |-> f, root |-> r, items |-> l] :
        f \in {"ok", "failed"}, r \in {"rss", "feed", "other", "malformed"},
        l \in ListsUpTo(RawItems, MaxItems)}

\* the body of items.map: the processed item, or in the catch the minimal
\* item with guid `error-${Date.now()}-${Math.random()}`
ProcessItem(raw, t) ==
    IF raw.throws
    THEN [guid |-> <<"error", t>>, title |-> "Error processing item"]
    ELSE [guid |-> raw.guid, title |-> raw.title]

\* a filter that drops only the items lacking both guid and title
IsValidItemEither(item) == item.guid # EmptyGuid \/ item.title # ""

\* const isValid = Boolean(item.guid && item.title)
IsValidItem(item) == item.guid # EmptyGuid /\ item.title # ""

\* fetch, parser.parse and the mapping of the nodes.  isArray makes `item`
\* an array always; a single Atom `entry` is an object, on which items.map
\* throws.  Every throw ends in the catch that yields the fallback feed.
ParseDocument(doc, t) ==
    IF \/ doc.fetch # "ok"
       \/ doc.root \notin {"rss", "feed"}
       \/ doc.root = "feed" /\ Len(doc.items) = 1
    THEN [ok |-> FALSE, items |-> <<>>]
    ELSE LET mapped == [i \in 1..Len(doc.items) |-> ProcessItem(doc.items[i], t)]
         IN [ok |-> TRUE,
             items |-> FilterSeq(mapped, {e \in Range(mapped) : IsValidItem(e)})]

InitParse ==
    /\ now = StartTime
    /\ rss_feeds = {}
    /\ rss_entries = <<>>
    /\ rss_locks = {}
    /\ call = [c \in Callers |-> NewCall]
    /\ hist = [c \in Callers |-> NoHist]
    /\ nticks = 0
    /\ nerrors = 0
    /\ probe = NoProbe
    /\ pool = NoPool
    /\ friends = {}
    /\ comments = {}

\* fetchAndParseFeed(url) on what the fetch meets
ParseCall ==
    /\ probe = NoProbe
    /\ \E doc \in Documents :
         LET outcome == ParseDocument(doc, now)
         IN probe' = [op |-> "parse", doc |-> doc, at |-> now, ok |-> outcome.ok,
                      items |-> fetchAndParseFeed(outcome, now)]
    /\ UNCHANGED <<pool, friends, comments, now, rss_feeds, rss_entries, rss_locks, call, hist, nticks, nerrors>>

NextParse == ParseCall

SpecParse == InitParse /\ [][NextParse]_vars

\* ----------------------------------------------------- formatDate alone
\* the values passed as dateStr: strings of every kind, with calendar days
\* that exist and one that does not, with and without fraction and zone;
\* a valid and an invalid Date object; null
DateValues ==
    {StringValue(DateString("rfc822", 1, s, -1, z)) :
        s \in {0, 36000}, z \in {"Z", "+0100", "-0500"}}
    \cup {StringValue(DateString("dateTime", d, s, f, z)) :
        d \in {-1, 1, 2}, s \in {0, 36000}, f \in {-1, 500},
        z \in {"none", "Z", "+0100", "-0500"}}
    \cup {StringValue(DateString("date", d, 0, -1, "none")) : d \in {-1, 1, 2}}
    \cup {StringValue(GarbageString), DateObject(-1), DateObject(DayMs + 5), NullValue}

InitDate ==
    /\ now = StartTime
    /\ rss_feeds = {}
    /\ rss_entries = <<>>
    /\ rss_locks = {}
    /\ call = [c \in Callers |-> NewCall]
    /\ hist = [c \in Callers |-> NoHist]
    /\ nticks = 0
    /\ nerrors = 0
    /\ probe = NoProbe
    /\ pool = NoPool
    /\ friends = {}
    /\ comments = {}

\* formatDate(dateStr) on a host in one of the time zones
FormatDateCall ==
    /\ probe = NoProbe
    /\ \E v \in DateValues, tz \in HostZones :
         probe' = [op |-> "formatDate", input |-> v, tz |-> tz, at |-> now,
                   result |-> formatDate(v, now, tz)]
    /\ UNCHANGED <<pool, friends, comments, now, rss_feeds, rss_entries, rss_locks, call, hist, nticks, nerrors>>

NextDate == FormatDateCall

SpecDate == InitDate /\ [][NextDate]_vars

\* --------------------------------------------------- extractImage alone
\* A URL by what extractImage tests of it: which URL it is (0: none, the
\* value is missing or empty), whether it ends in an audio extension
\* (/\.(mp3|m4a|wav|ogg|flac)($|\?)/i) and whether it looks like an image (an
\* image extension, an image path segment or a CDN image path)
Url(id, audioExt, imageLike) == [id |-> id, audioExt |-> audioExt, imageLike |-> imageLike]
NoUrl == Url(0, FALSE, FALSE)
\* an image URL found outside the enclosures
ArtUrl == Url(MaxEnclosures + 1, FALSE, TRUE)
Truthy(url) == url.id # 0

\* the type attributes: none, and one of each kind the code tells apart
EnclosureTypes == {"", "audio/mpeg", "image/png"}
\* String(type).startsWith('audio/'), String(type).startsWith('image/')
IsAudio(type) == type = "audio/mpeg"
IsImage(type) == type = "image/png"

\* The n-th enclosure of an item, by the shape of the parsed object:
\*   "attr"   { attr: { '@_type': type, '@_url': url } }
\*   "direct" { '@_type': type, '@_url': url }
\*   "child"  { '@_type': type, url: url }
EnclosuresAt(n) ==
    {[shape |-> sh, type |-> ty, url |-> u] :
        sh \in {"attr", "direct", "child"}, ty \in EnclosureTypes,
        u \in {NoUrl} \cup {Url(n, a, i) : a \in BOOLEAN, i \in BOOLEAN}}

\* the arrays of n enclosures, the i-th one of EnclosuresAt(i)
RECURSIVE EnclosureLists(_)
EnclosureLists(n) ==
    IF n = 0 THEN {<<>>}
    ELSE {Append(l, e) : l \in EnclosureLists(n - 1), e \in EnclosuresAt(n)}

\* An item by what extractImage reads of it: the image the steps before the
\* enclosures find (itunes:image, media:content, media:thumbnail), the
\* enclosure in its single-object or array form, and the image the steps
\* after them find (content fields, channelImage, channel); the items of one
\* form, the arrays being of n enclosures
ImageItems(form, n) ==
    {[earlier |-> e, form |-> form, enclosures |-> a, later |-> l] :
        e \in {NoUrl, ArtUrl}, l \in {NoUrl, ArtUrl},
        a \in CASE form = "array" -> EnclosureLists(n)
                [] form = "single" -> EnclosureLists(1)
                [] OTHER -> {<<>>}}

\* the branch for an enclosure that is a single object
EnclosureObject(enc) ==
    CASE enc.shape = "attr" ->
            IF /\ ~IsAudio(enc.type) /\ Truthy(enc.url) /\ ~enc.url.audioExt
               /\ (IsImage(enc.type) \/ enc.url.imageLike)
            THEN enc.url ELSE NoUrl
      [] enc.shape = "direct" ->
            IF /\ Truthy(enc.url) /\ ~IsAudio(enc.type) /\ ~enc.url.audioExt
               /\ (IsImage(enc.type) \/ enc.url.imageLike)
            THEN enc.url ELSE NoUrl
      [] enc.shape = "child" ->
            IF Truthy(enc.url) /\ ~enc.url.audioExt /\ enc.url.imageLike
            THEN enc.url ELSE NoUrl

\* the url of the first enclosure of the list that is in the set, if any
FirstUrl(list, hits) ==
    LET at == {i \in 1..Len(list) : list[i] \in hits}
    IN IF at = {} THEN NoUrl
       ELSE list[CHOOSE i \in at : \A j \in at : i <= j].url

\* the branch for an array of enclosures: first an enclosure typed as an
\* image, then one whose URL looks like an image; only the attr shape is read
EnclosureArray(list) ==
    LET typed == FirstUrl(list, {e \in Range(list) :
                     /\ e.shape = "attr" /\ ~IsAudio(e.type) /\ IsImage(e.type)
                     /\ Truthy(e.url)})
        looks == FirstUrl(list, {e \in Range(list) :
                     /\ e.shape = "attr" /\ Truthy(e.url) /\ ~IsAudio(e.type)
                     /\ ~e.url.audioExt /\ e.url.imageLike})
    IN IF Truthy(typed) THEN typed ELSE looks

\* extractImage(item); NoUrl stands for null
extractImage(item) ==
    IF Truthy(item.earlier) THEN item.earlier
    ELSE LET found == CASE item.form = "array" -> EnclosureArray(item.enclosures)
                        [] item.form = "single" -> EnclosureObject(item.enclosures[1])
                        [] OTHER -> NoUrl
         IN IF Truthy(found) THEN found ELSE item.later

InitImage ==
    /\ now = StartTime
    /\ rss_feeds = {}
    /\ rss_entries = <<>>
    /\ rss_locks = {}
    /\ call = [c \in Callers |-> NewCall]
    /\ hist = [c \in Callers |-> NoHist]
    /\ nticks = 0
    /\ nerrors = 0
    /\ probe = NoProbe
    /\ pool = NoPool
    /\ friends = {}
    /\ comments = {}

ImageCall ==
    /\ probe = NoProbe
    /\ \E form \in {"none", "single", "array"}, n \in 0..MaxEnclosures :
         \E item \in ImageItems(form, n) :
             probe' = [op |-> "image", item |-> item, result |-> extractImage(item)]
    /\ UNCHANGED <<pool, friends, comments, now, rss_feeds, rss_entries, rss_locks, call, hist, nticks, nerrors>>

NextImage == ImageCall

SpecImage == InitImage /\ [][NextImage]_vars

\* ------------------------------------------------ storeRSSEntries alone
\* the entries a caller may pass: a stored or a new guid, a description within
\* or beyond the limit, an early or a late date
StoreItems ==
    {[guid |-> <<"item", g>>, description |-> Text(n), pubDate |-> d] :
        g \in {1, 2}, n \in {1, DescriptionLimit + 1}, d \in {500, 3000}}

InitStore ==
    /\ now = StartTime
    /\ rss_feeds = {FeedRow(0)}
    /\ rss_entries \in {<<>>, <<EntryRow(1, ItemOld)>>}
    /\ rss_locks = {}
    /\ call = [c \in Callers |-> NewCall]
    /\ hist = [c \in Callers |-> NoHist]
    /\ nticks = 0
    /\ nerrors = 0
    /\ probe = NoProbe
    /\ pool = NoPool
    /\ friends = {}
    /\ comments = {}

\* storeRSSEntries(feedId, entries) run to its end with no other call in
\* between, followed by the entries read of getRSSEntries
StoreCall ==
    /\ probe = NoProbe
    /\ \E entries \in ListsUpTo(StoreItems, MaxEntries) :
         LET newEntries == NewEntries(entries, SelectGuids(1))
         IN /\ rss_entries' = IF newEntries = <<>> THEN rss_entries
                               ELSE InsertEntries(1, newEntries)
            /\ rss_feeds' = IF entries = <<>> THEN rss_feeds
                             ELSE UpdateLastFetched(1, now)
            /\ probe' = [op |-> "store", entries |-> entries, before |-> SelectEntries(1),
                         read |-> <<>>]
    /\ UNCHANGED <<pool, friends, comments, now, rss_locks, call, hist, nticks, nerrors>>

\* SELECT ... FROM rss_entries WHERE feed_id = ? ORDER BY pub_date DESC
StoreReadBack ==
    /\ probe.op = "store"
    /\ probe' = [probe EXCEPT !.op = "read", !.read = SelectEntries(1)]
    /\ UNCHANGED <<pool, friends, comments, now, rss_feeds, rss_entries, rss_locks, call, hist, nticks, nerrors>>

NextStore == StoreCall \/ StoreReadBack

SpecStore == InitStore /\ [][NextStore]_vars

\* -------------------------------------------------- the lock manager alone
\* acquireFeedRefreshLock and releaseFeedRefreshLock called at any instants by
\* any callers; a holder that crashes is one that never calls release
InitLock ==
    /\ now = StartTime
    /\ rss_feeds = {}
    /\ rss_entries = <<>>
    /\ rss_locks = {}
    /\ call = [c \in Callers |-> NewCall]
    /\ hist = [c \in Callers |-> NoHist]
    /\ nticks = 0
    /\ nerrors = 0
    /\ probe = NoProbe
    /\ pool = NoPool
    /\ friends = {}
    /\ comments = {}

\* the times waited between lock operations: a millisecond, up to the last
\* millisecond of a hold, the whole expiry horizon
LockWaits == {1, LockExpiryMs - 1, LockExpiryMs}

\* acquireFeedRefreshLock(feedUrl) by a caller that holds no lock, at the
\* instant now; the caller keeps the answer in lockAcquired
LockAcquire ==
    /\ \E c \in Callers :
         /\ ~call[c].lockAcquired
         /\ LET expiryTime == now + LockExpiryMs
                r == LockUpsert(LockKey(FeedUrl), expiryTime, now)
            IN /\ rss_locks' = r.rows
               /\ probe' = [op |-> "acquire", by |-> c, at |-> now, before |-> rss_locks,
                            held |-> 0, result |-> r.affectedRows > 0]
               /\ call' = [call EXCEPT ![c].lockAcquired = r.affectedRows > 0,
                                       ![c].expiryTime = IF r.affectedRows > 0
                                                         THEN expiryTime ELSE 0]
    /\ UNCHANGED <<pool, friends, comments, now, rss_feeds, rss_entries, hist, nticks, nerrors>>

\* releaseFeedRefreshLock(feedUrl) at the instant now, by a caller whose
\* acquireFeedRefreshLock returned true (the finally of the guarded block)
LockRelease ==
    /\ \E c \in Callers :
         /\ call[c].lockAcquired
         /\ rss_locks' = LockDelete(LockKey(FeedUrl))
         /\ probe' = [op |-> "release", by |-> c, at |-> now, before |-> rss_locks,
                      held |-> call[c].expiryTime, result |-> TRUE]
         /\ call' = [call EXCEPT ![c].lockAcquired = FALSE, ![c].expiryTime = 0]
    /\ UNCHANGED <<pool, friends, comments, now, rss_feeds, rss_entries, hist, nticks, nerrors>>

\* time passes
LockWait ==
    /\ nticks < MaxWaits
    /\ nticks' = nticks + 1
    /\ \E d \in LockWaits : now' = now + d
    /\ UNCHANGED <<pool, friends, comments, rss_feeds, rss_entries, rss_locks, call, hist, nerrors, probe>>

NextLock == LockAcquire \/ LockRelease \/ LockWait

SpecLock == InitLock /\ [][NextLock]_vars

\* -------------------------- storeRSSEntriesWithTransaction on the pool alone
\* the awaits of executeQuery and of executeBatchTransaction, one step each,
\* every one of which can reject.  A transaction works on the tables as it
\* sees them; COMMIT makes them the stored tables, ROLLBACK drops them.

\* a connection of the pool: whether it is checked out, whether a transaction
\* is open on it, and the tables as that transaction sees them
IdleConnection == [out |-> FALSE, open |-> FALSE, entries |-> <<>>, feeds |-> {}]

\* the n items of a fetched document, with guids the initial store lacks
FreshItems(n) ==
    [i \in 1..n |-> [guid |-> <<"item", 10 + i>>, description |-> Text(0), pubDate |-> i]]

\* the lengths of the lists stored: one entry, a full chunk and one more
StoreSizes == {1, ChunkSize + 1}

\* for (let i = 0; i < newEntries.length; i += chunkSize)
\*     chunks.push(newEntries.slice(i, i + chunkSize))
RECURSIVE Chunks(_)
Chunks(newEntries) ==
    IF newEntries = <<>> THEN <<>>
    ELSE IF Len(newEntries) <= ChunkSize THEN <<newEntries>>
         ELSE <<SubSeq(newEntries, 1, ChunkSize)>>
                  \o Chunks(SubSeq(newEntries, ChunkSize + 1, Len(newEntries)))

\* a batch without the trailing UPDATE of rss_feeds
OperationsInsertsOnly(feedId, newEntries, currentTimeMs) ==
    [i \in 1..Len(Chunks(newEntries)) |->
        [query |-> "insert", feedId |-> feedId, chunk |-> Chunks(newEntries)[i],
         currentTimeMs |-> 0]]

\* const operations = chunks.map(...): one INSERT per chunk;
\* operations.push({query: 'UPDATE rss_feeds SET updated_at = ?, last_fetched = ? ...'})
Operations(feedId, newEntries, currentTimeMs) ==
    [i \in 1..Len(Chunks(newEntries)) |->
        [query |-> "insert", feedId |-> feedId, chunk |-> Chunks(newEntries)[i],
         currentTimeMs |-> 0]]
    \o <<[query |-> "update", feedId |-> feedId, chunk |-> <<>>,
          currentTimeMs |-> currentTimeMs]>>

\* connection.query(op.query, op.params) inside the transaction of conn: the
\* tables as the transaction sees them afterwards
TxQuery(conn, op) ==
    IF op.query = "insert"
    THEN [conn EXCEPT !.entries = @ \o [i \in 1..Len(op.chunk) |-> EntryRow(op.feedId, op.chunk[i])]]
    ELSE [conn EXCEPT !.feeds = {IF r.id = op.feedId
                                 THEN [r EXCEPT !.last_fetched = op.currentTimeMs]
                                 ELSE r : r \in @}]

\* a release that leaves the connection checked out
ReleaseSkipped(p, c) == p

\* connection.release(): the connection goes back to the pool
Release(p, c) == [p EXCEPT ![c].out = FALSE]

\* the local state of a storeRSSEntriesWithTransaction call:
\*   pc          the await it is suspended at; "idle" before, "done" after
\*   stmt        the statement of the executeQuery in progress
\*   connection  the connection the operation in progress obtained; 0: none
\*   obtained    connections obtained from the pool so far
\*   released    calls of connection.release() so far
\*   applied     statements of the batch that succeeded
\*   stmtFailed  a statement of the batch (an INSERT or the UPDATE) rejected
\*   rollbackFailed  the ROLLBACK rejected
\*   batch       executeBatchTransaction was entered
\*   before      the stored tables when the call started
NoStore ==
    [op |-> "store", pc |-> "idle", stmt |-> "none", feedId |-> 1, items |-> <<>>,
     newEntries |-> <<>>, operations |-> <<>>, currentTimeMs |-> 0, connection |-> 0,
     obtained |-> 0, released |-> 0, applied |-> 0, stmtFailed |-> FALSE,
     rollbackFailed |-> FALSE, batch |-> FALSE, outcome |-> "none",
     before |-> [entries |-> <<>>, feeds |-> {}], calls |-> 0]

InitDb ==
    /\ now = StartTime
    /\ rss_feeds = {FeedRow(0)}
    /\ rss_entries \in {<<>>, <<EntryRow(1, ItemOld)>>}
    /\ rss_locks = {}
    /\ call = [c \in Callers |-> NewCall]
    /\ hist = [c \in Callers |-> NoHist]
    /\ nticks = 0
    /\ nerrors = 0
    /\ probe = NoStore
    /\ pool = [c \in Connections |-> IdleConnection]
    /\ friends = {}
    /\ comments = {}

\* the call is over: it returned, or threw the error it caught and logged
StoreDone(k, outcome) == [k EXCEPT !.pc = "done", !.connection = 0, !.outcome = outcome]

\* storeRSSEntriesWithTransaction(feedId, entries) is called with a list that
\* is not empty, and executeQuery starts for the SELECT of the guids
StoreBegin ==
    /\ probe.pc \in {"idle", "done"}
    /\ probe.calls < MaxStores
    /\ \E n \in StoreSizes :
         probe' = [NoStore EXCEPT !.pc = "q.getConnection", !.stmt = "select",
                                  !.items = FreshItems(n), !.calls = probe.calls + 1,
                                  !.before = [entries |-> rss_entries, feeds |-> rss_feeds]]
    /\ UNCHANGED <<now, rss_feeds, rss_entries, rss_locks, call, hist, nticks, nerrors,
                   pool, friends, comments>>

\* executeQuery: connection = await pool.getConnection(); when it rejects,
\* connection is undefined and the finally releases nothing
QueryGetConnection ==
    /\ probe.pc = "q.getConnection"
    /\ \/ \E c \in {d \in Connections : ~pool[d].out} :
            /\ pool' = [pool EXCEPT ![c].out = TRUE]
            /\ probe' = [probe EXCEPT !.pc = "q.ping", !.connection = c,
                                      !.obtained = @ + 1]
       \/ /\ probe' = StoreDone(probe, "threw")
          /\ UNCHANGED pool
    /\ UNCHANGED <<now, rss_feeds, rss_entries, rss_locks, call, hist, nticks, nerrors,
                   friends, comments>>

\* executeQuery: await connection.ping(); when it rejects, the finally
\* releases the connection and the error is thrown on
QueryPing ==
    /\ probe.pc = "q.ping"
    /\ \/ /\ probe' = [probe EXCEPT !.pc = "q.query"]
          /\ UNCHANGED pool
       \/ /\ probe' = [StoreDone(probe, "threw") EXCEPT !.released = @ + 1]
          /\ pool' = Release(pool, probe.connection)
    /\ UNCHANGED <<now, rss_feeds, rss_entries, rss_locks, call, hist, nticks, nerrors,
                   friends, comments>>

\* executeQuery: await connection.query(query, params), then the finally.
\* After the SELECT of the guids the call filters the entries and goes on
\* with the UPDATE alone (no new entry) or with the batch; the UPDATE alone
\* runs outside any transaction and is stored at once.
QueryRun ==
    /\ probe.pc = "q.query"
    /\ pool' = Release(pool, probe.connection)
    /\ \/ /\ probe.stmt = "select"
          /\ LET newEntries == NewEntries(probe.items, SelectGuids(probe.feedId))
                 k == [probe EXCEPT !.released = @ + 1, !.connection = 0,
                                    !.newEntries = newEntries, !.currentTimeMs = now]
             IN probe' = IF newEntries = <<>>
                         THEN [k EXCEPT !.pc = "q.getConnection", !.stmt = "update"]
                         ELSE [k EXCEPT !.pc = "b.getConnection", !.stmt = "none",
                                        !.batch = TRUE,
                                        !.operations = Operations(probe.feedId, newEntries, now)]
          /\ UNCHANGED rss_feeds
       \/ /\ probe.stmt = "update"
          /\ rss_feeds' = UpdateLastFetched(probe.feedId, probe.currentTimeMs)
          /\ probe' = [StoreDone(probe, "returned") EXCEPT !.released = @ + 1]
       \/ /\ probe' = [StoreDone(probe, "threw") EXCEPT !.released = @ + 1]
          /\ UNCHANGED rss_feeds
    /\ UNCHANGED <<now, rss_entries, rss_locks, call, hist, nticks, nerrors,
                   friends, comments>>

\* executeBatchTransaction: const connection = await pool.getConnection(),
\* before the try block: when it rejects there is no connection
BatchGetConnection ==
    /\ probe.pc = "b.getConnection"
    /\ \/ \E c \in {d \in Connections : ~pool[d].out} :
            /\ pool' = [pool EXCEPT ![c].out = TRUE]
            /\ probe' = [probe EXCEPT !.pc = "b.begin", !.connection = c,
                                      !.obtained = @ + 1]
       \/ /\ probe' = StoreDone(probe, "threw")
          /\ UNCHANGED pool
    /\ UNCHANGED <<now, rss_feeds, rss_entries, rss_locks, call, hist, nticks, nerrors,
                   friends, comments>>

\* await connection.beginTransaction(); a rejection goes to the catch
BatchBegin ==
    /\ probe.pc = "b.begin"
    /\ \/ /\ pool' = [pool EXCEPT ![probe.connection] =
                         [@ EXCEPT !.open = TRUE, !.entries = rss_entries,
                                   !.feeds = rss_feeds]]
          /\ probe' = [probe EXCEPT !.pc = "b.query"]
       \/ /\ probe' = [probe EXCEPT !.pc = "b.rollback"]
          /\ UNCHANGED pool
    /\ UNCHANGED <<now, rss_feeds, rss_entries, rss_locks, call, hist, nticks, nerrors,
                   friends, comments>>

\* for (const op of operations) await connection.query(op.query, op.params):
\* the next statement of the batch; a rejection goes to the catch
BatchQuery ==
    /\ probe.pc = "b.query"
    /\ probe.operations # <<>>
    /\ \/ /\ pool' = [pool EXCEPT ![probe.connection] = TxQuery(@, Head(probe.operations))]
          /\ probe' = [probe EXCEPT !.operations = Tail(@), !.applied = @ + 1,
                                    !.pc = IF Tail(probe.operations) = <<>>
                                           THEN "b.commit" ELSE "b.query"]
       \/ /\ probe' = [probe EXCEPT !.pc = "b.rollback", !.stmtFailed = TRUE]
          /\ UNCHANGED pool
    /\ UNCHANGED <<now, rss_feeds, rss_entries, rss_locks, call, hist, nticks, nerrors,
                   friends, comments>>

\* await connection.commit(), then the finally and the return.  A COMMIT that
\* rejects has stored the whole transaction or nothing of it, and goes to the
\* catch
BatchCommit ==
    /\ probe.pc = "b.commit"
    /\ LET conn == pool[probe.connection]
           closed == [pool EXCEPT ![probe.connection] =
                         [@ EXCEPT !.open = FALSE, !.entries = <<>>, !.feeds = {}]]
       IN \/ /\ rss_entries' = conn.entries
             /\ rss_feeds' = conn.feeds
             /\ pool' = Release(closed, probe.connection)
             /\ probe' = [StoreDone(probe, "returned") EXCEPT !.released = @ + 1]
          \/ /\ \/ rss_entries' = conn.entries /\ rss_feeds' = conn.feeds
                \/ UNCHANGED <<rss_entries, rss_feeds>>
             /\ pool' = closed
             /\ probe' = [probe EXCEPT !.pc = "b.rollback"]
    /\ UNCHANGED <<now, rss_locks, call, hist, nticks, nerrors, friends, comments>>

\* catch: await connection.rollback(); throw error; finally:
\* connection.release().  A ROLLBACK rejects on a connection that is lost,
\* whose transaction the server drops
BatchRollback ==
    /\ probe.pc = "b.rollback"
    /\ pool' = Release([pool EXCEPT ![probe.connection] =
                           [@ EXCEPT !.open = FALSE, !.entries = <<>>, !.feeds = {}]],
                       probe.connection)
    /\ \E rejected \in BOOLEAN :
         probe' = [StoreDone(probe, "threw") EXCEPT !.released = @ + 1,
                                                    !.rollbackFailed = rejected]
    /\ UNCHANGED <<now, rss_feeds, rss_entries, rss_locks, call, hist, nticks, nerrors,
                   friends, comments>>

NextDb ==
    \/ StoreBegin
    \/ QueryGetConnection
    \/ QueryPing
    \/ QueryRun
    \/ BatchGetConnection
    \/ BatchBegin
    \/ BatchQuery
    \/ BatchCommit
    \/ BatchRollback

SpecDb == InitDb /\ [][NextDb]_vars

\* -------------------------------------------- the friends mutations alone
\* src/convex/friends.ts.  A Convex mutation runs as one transaction: each
\* call is one step, and a call that throws writes nothing.  The calls of a
\* behaviour are made at one instant.

\* the users that call, and what getAuthUserId gives an unauthenticated caller
Users == {"u1", "u2", "u3"}
NullUser == "null"

\* the ids v.id("friends") can carry: those of the documents ever inserted
FriendIds == 1..MaxFriendships

\* the document of the table with the given _id, as a set (empty: none)
FriendById(friendshipId) == {f \in friends : f._id = friendshipId}

\* ctx.db.query("friends").withIndex("by_users", q =>
\*     q.eq("requesterId", a).eq("requesteeId", b)).first(), as a set
FirstByUsers(a, b) ==
    LET found == {f \in friends : f.requesterId = a /\ f.requesteeId = b}
    IN {f \in found : \A g \in found : f._id <= g._id}

\* a lookup of the request received from the other user that finds nothing
ReceivedRequestNone(requesterId, requesteeId) == {}

\* const receivedRequest = ... q.eq("requesterId", requesteeId)
\*                              .eq("requesteeId", requesterId) ... .first()
ReceivedRequest(requesterId, requesteeId) == FirstByUsers(requesteeId, requesterId)

\* ctx.db.patch(id, {status: "accepted", updatedAt: Date.now()})
PatchAccepted(friendshipId) ==
    {IF f._id = friendshipId THEN [f EXCEPT !.status = "accepted", !.updatedAt = now] ELSE f :
        f \in friends}

\* the error sendFriendRequest throws, "none" when it throws nothing
SendError(requesterId, requesteeId) ==
    IF requesterId = NullUser THEN "Unauthorized"
    ELSE IF requesterId = requesteeId THEN "Cannot send friend request to yourself"
    ELSE IF FirstByUsers(requesterId, requesteeId) # {} THEN "Friend request already sent"
    ELSE IF \E f \in ReceivedRequest(requesterId, requesteeId) : f.status # "pending"
         THEN "Friendship already exists"
    ELSE "none"

\* an acceptFriendRequest without the test of the status
AcceptErrorAnyStatus(userId, friendshipId) ==
    IF userId = NullUser THEN "Unauthorized"
    ELSE IF FriendById(friendshipId) = {} THEN "Friend request not found"
    ELSE IF \E f \in FriendById(friendshipId) : f.requesteeId # userId
         THEN "Not authorized to accept this friend request"
    ELSE "none"

\* the error acceptFriendRequest throws, "none" when it throws nothing
AcceptError(userId, friendshipId) ==
    IF userId = NullUser THEN "Unauthorized"
    ELSE IF FriendById(friendshipId) = {} THEN "Friend request not found"
    ELSE IF \E f \in FriendById(friendshipId) : f.requesteeId # userId
         THEN "Not authorized to accept this friend request"
    ELSE IF \E f \in FriendById(friendshipId) : f.status # "pending"
         THEN "Friend request is not pending"
    ELSE "none"

\* the error deleteFriendship throws, "none" when it throws nothing
DeleteError(userId, friendshipId) ==
    IF userId = NullUser THEN "Unauthorized"
    ELSE IF FriendById(friendshipId) = {} THEN "Friendship not found"
    ELSE IF \E f \in FriendById(friendshipId) : f.requesterId # userId /\ f.requesteeId # userId
         THEN "Not authorized to delete this friendship"
    ELSE "none"

\* the last mutation: its caller, its argument, the error it threw, the table
\* it ran on, and the number of documents inserted so far (the next _id)
FriendsCall(op, userId, arg, error, inserted) ==
    [op |-> op, by |-> userId, arg |-> arg, error |-> error, before |-> friends,
     inserted |-> inserted]

InitFriends ==
    /\ now = StartTime
    /\ rss_feeds = {}
    /\ rss_entries = <<>>
    /\ rss_locks = {}
    /\ call = [c \in Callers |-> NewCall]
    /\ hist = [c \in Callers |-> NoHist]
    /\ nticks = 0
    /\ nerrors = 0
    /\ probe = [op |-> "none", by |-> NullUser, arg |-> 0, error |-> "none",
                before |-> {}, inserted |-> 0]
    /\ pool = NoPool
    /\ friends = {}
    /\ comments = {}

\* sendFriendRequest({requesteeId}) by userId
sendFriendRequest ==
    /\ \E requesterId \in Users \cup {NullUser}, requesteeId \in Users :
         LET error == SendError(requesterId, requesteeId)
             received == ReceivedRequest(requesterId, requesteeId)
         IN IF error # "none"
            THEN /\ probe' = FriendsCall("send", requesterId, requesteeId, error, probe.inserted)
                 /\ UNCHANGED friends
            ELSE IF received # {}
            THEN /\ friends' = PatchAccepted((CHOOSE f \in received : TRUE)._id)
                 /\ probe' = FriendsCall("send", requesterId, requesteeId, error, probe.inserted)
            ELSE /\ probe.inserted < MaxFriendships
                 /\ friends' = friends \cup
                        {[_id |-> probe.inserted + 1, requesterId |-> requesterId,
                          requesteeId |-> requesteeId, status |-> "pending",
                          createdAt |-> now, updatedAt |-> now]}
                 /\ probe' = FriendsCall("send", requesterId, requesteeId, error,
                                         probe.inserted + 1)
    /\ UNCHANGED <<now, rss_feeds, rss_entries, rss_locks, call, hist, nticks, nerrors,
                   pool, comments>>

\* acceptFriendRequest({friendshipId}) by userId
acceptFriendRequest ==
    /\ \E userId \in Users \cup {NullUser}, friendshipId \in FriendIds :
         LET error == AcceptError(userId, friendshipId)
         IN /\ probe' = FriendsCall("accept", userId, friendshipId, error, probe.inserted)
            /\ friends' = IF error # "none" THEN friends ELSE PatchAccepted(friendshipId)
    /\ UNCHANGED <<now, rss_feeds, rss_entries, rss_locks, call, hist, nticks, nerrors,
                   pool, comments>>

\* deleteFriendship({friendshipId}) by userId
deleteFriendship ==
    /\ \E userId \in Users \cup {NullUser}, friendshipId \in FriendIds :
         LET error == DeleteError(userId, friendshipId)
         IN /\ probe' = FriendsCall("delete", userId, friendshipId, error, probe.inserted)
            /\ friends' = IF error # "none" THEN friends
                          ELSE {f \in friends : f._id # friendshipId}
    /\ UNCHANGED <<now, rss_feeds, rss_entries, rss_locks, call, hist, nticks, nerrors,
                   pool, comments>>

NextFriends == sendFriendRequest \/ acceptFriendRequest \/ deleteFriendship

SpecFriends == InitFriends /\ [][NextFriends]_vars

\* -------------------------------------------- the comment mutations alone
\* addComment and deleteComment of src/convex/following.ts, each call one
\* transaction.  A document is [_id, userId, entryGuid, content, parentId];
\* parentId 0 stands for a comment that is no reply.

\* the users that have a profile
Profiles == {"u1", "u2"}
\* the entries commented on
EntryGuids == {"e1", "e2"}
\* the ids v.id("comments") can carry
CommentIds == 1..MaxComments
\* args.content: `pad` white space around `len` other characters
Contents == {[pad |-> 1, len |-> 0], [pad |-> 1, len |-> 2],
             [pad |-> 0, len |-> CommentLimit + 1]}

\* ctx.db.get(id), as a set (empty: null)
CommentById(table, commentId) == {c \in table : c._id = commentId}

\* the error addComment throws, "none" when it throws nothing;
\* content = args.content.trim() has len characters
AddError(userId, entryGuid, content, parentId) ==
    IF userId = NullUser THEN "Not authenticated"
    ELSE IF userId \notin Profiles THEN "User profile not found"
    ELSE IF content.len = 0 THEN "Comment cannot be empty"
    ELSE IF content.len > CommentLimit THEN "Comment too long"
    ELSE IF parentId # 0 /\ CommentById(comments, parentId) = {}
         THEN "Parent comment not found"
    ELSE IF parentId # 0 /\ \E p \in CommentById(comments, parentId) : p.entryGuid # entryGuid
         THEN "Parent comment belongs to different entry"
    ELSE "none"

\* the error deleteComment throws, "none" when it throws nothing
DeleteCommentError(userId, commentId) ==
    IF userId = NullUser THEN "Not authenticated"
    ELSE IF CommentById(comments, commentId) = {} THEN "Comment not found"
    ELSE IF \E c \in CommentById(comments, commentId) : c.userId # userId
         THEN "Not authorized"
    ELSE "none"

\* ctx.db.query("comments").withIndex("by_parent", q => q.eq("parentId", id))
\*     .collect(): the replies in the order of the index, as a sequence
RECURSIVE InIdOrder(_)
InIdOrder(docs) ==
    IF docs = {} THEN <<>>
    ELSE LET first == CHOOSE c \in docs : \A d \in docs : c._id <= d._id
         IN <<first>> \o InIdOrder(docs \ {first})

Replies(table, commentId) == InIdOrder({c \in table : c.parentId = commentId})

\* a deleteReplies that deletes the replies without descending into them
deleteRepliesDirect(table, commentId) ==
    {c \in table : c.parentId # commentId}

\* const deleteReplies = async (commentId) => { const replies = ...;
\*   for (const reply of replies) { await deleteReplies(reply._id);
\*                                  await ctx.db.delete(reply._id); } }
\* the table after the call, the loop taken reply by reply
RECURSIVE deleteRepliesLoop(_, _)
RECURSIVE deleteReplies(_, _)
deleteRepliesLoop(table, replies) ==
    IF replies = <<>> THEN table
    ELSE LET reply == Head(replies)
             below == deleteReplies(table, reply._id)
         IN deleteRepliesLoop({c \in below : c._id # reply._id}, Tail(replies))

deleteReplies(table, commentId) ==
    deleteRepliesLoop(table, Replies(table, commentId))

\* the last mutation: caller, argument, error thrown, the table it ran on,
\* and the number of documents inserted so far (the next _id)
CommentsCall(op, userId, arg, error, inserted) ==
    [op |-> op, by |-> userId, arg |-> arg, error |-> error, before |-> comments,
     inserted |-> inserted]

InitComments ==
    /\ now = StartTime
    /\ rss_feeds = {}
    /\ rss_entries = <<>>
    /\ rss_locks = {}
    /\ call = [c \in Callers |-> NewCall]
    /\ hist = [c \in Callers |-> NoHist]
    /\ nticks = 0
    /\ nerrors = 0
    /\ probe = [op |-> "none", by |-> NullUser, arg |-> 0, error |-> "none",
                before |-> {}, inserted |-> 0]
    /\ pool = NoPool
    /\ friends = {}
    /\ comments = {}

\* addComment({entryGuid, feedUrl, content, parentId}) by userId
addComment ==
    /\ \E userId \in Users \cup {NullUser}, entryGuid \in EntryGuids,
          content \in Contents, parentId \in {0} \cup CommentIds :
         LET error == AddError(userId, entryGuid, content, parentId)
         IN IF error # "none"
            THEN /\ probe' = CommentsCall("add", userId, parentId, error, probe.inserted)
                 /\ UNCHANGED comments
            ELSE /\ probe.inserted < MaxComments
                 /\ comments' = comments \cup
                        {[_id |-> probe.inserted + 1, userId |-> userId,
                          entryGuid |-> entryGuid, content |-> content.len,
                          parentId |-> parentId]}
                 /\ probe' = CommentsCall("add", userId, parentId, error, probe.inserted + 1)
    /\ UNCHANGED <<now, rss_feeds, rss_entries, rss_locks, call, hist, nticks, nerrors,
                   pool, friends>>

\* deleteComment({commentId}) by userId
deleteComment ==
    /\ \E userId \in Users \cup {NullUser}, commentId \in CommentIds :
         LET error == DeleteCommentError(userId, commentId)
         IN /\ probe' = CommentsCall("delete", userId, commentId, error, probe.inserted)
            /\ comments' = IF error # "none" THEN comments
                           ELSE {c \in deleteReplies(comments, commentId) : c._id # commentId}
    /\ UNCHANGED <<now, rss_feeds, rss_entries, rss_locks, call, hist, nticks, nerrors,
                   pool, friends>>

NextComments == addComment \/ deleteComment

SpecComments == InitComments /\ [][NextComments]_vars

\* ------------------------------------------- GET /api/rss/paginate alone
\* src/app/api/rss/paginate/route.tsx, called page after page by a client on
\* stored entries that do not change (their publication dates all differ, so
\* ORDER BY pub_date DESC is one order).  postTitles names the one feed.

\* no totalEntries parameter: searchParams.get('totalEntries') is null
NoTotal == 0 - 1

\* the n stored entries of the feed, in insertion order
StoredEntries(n) ==
    [i \in 1..n |-> EntryRow(1, [guid |-> <<"item", i>>, description |-> Text(0),
                                 pubDate |-> i * SecondMs])]

\* SELECT e.*, ... FROM rss_entries e JOIN rss_feeds f ON e.feed_id = f.id
\* WHERE f.title IN (...) ORDER BY e.pub_date DESC
JoinedEntries ==
    OrderByPubDateDesc(
        SelectSeq(rss_entries, LAMBDA e : \E f \in rss_feeds : f.id = e.feed_id))

\* ... LIMIT ? OFFSET ?
LimitOffset(rows, limit, offset) ==
    SubSeq(rows, offset + 1, IF offset + limit < Len(rows) THEN offset + limit ELSE Len(rows))

\* const hasMore = cachedTotalEntries !== null
\*     ? totalEntries > (offset + entries.length + 2)
\*     : totalEntries > (offset + entries.length)
HasMore(cachedTotalEntries, totalEntries, offset, count) ==
    IF cachedTotalEntries # NoTotal
    THEN totalEntries > offset + count + 2
    ELSE totalEntries > offset + count

\* the response of GET for page, pageSize and the totalEntries parameter
Paginate(page, pageSize, cachedTotalEntries) ==
    LET offset == (page - 1) * pageSize
        totalEntries == IF cachedTotalEntries = NoTotal
                        THEN Len(JoinedEntries)
                        ELSE cachedTotalEntries
        entries == LimitOffset(JoinedEntries, pageSize, offset)
    IN [entries |-> [i \in 1..Len(entries) |-> entries[i].guid],
        hasMore |-> HasMore(cachedTotalEntries, totalEntries, offset, Len(entries)),
        totalEntries |-> totalEntries]

\* the client before its first request: the page size it uses, the last page
\* it asked for, the entries received, the totalEntries and hasMore of the
\* last response, and whether it passed totalEntries back on every request
\* after the first
NoRequest(pageSize) ==
    [op |-> "paginate", pageSize |-> pageSize, page |-> 0, received |-> <<>>,
     totalEntries |-> NoTotal, hasMore |-> TRUE, passedBack |-> TRUE]

InitPage ==
    /\ now = StartTime
    /\ rss_feeds = {FeedRow(0)}
    /\ rss_entries \in {StoredEntries(n) : n \in 0..MaxStored}
    /\ rss_locks = {}
    /\ call = [c \in Callers |-> NewCall]
    /\ hist = [c \in Callers |-> NoHist]
    /\ nticks = 0
    /\ nerrors = 0
    /\ probe \in {NoRequest(pageSize) : pageSize \in 1..MaxPageSize}
    /\ pool = NoPool
    /\ friends = {}
    /\ comments = {}

\* the client asks for the next page while hasMore is true, passing back the
\* totalEntries it received or leaving it out
PaginateRequest ==
    /\ probe.hasMore
    /\ \E pass \in IF probe.page = 0 THEN {FALSE} ELSE BOOLEAN :
         LET page == probe.page + 1
             response == Paginate(page, probe.pageSize,
                                  IF pass THEN probe.totalEntries ELSE NoTotal)
         IN probe' = [probe EXCEPT !.page = page,
                                   !.received = @ \o response.entries,
                                   !.totalEntries = response.totalEntries,
                                   !.hasMore = response.hasMore,
                                   !.passedBack = @ /\ (pass \/ page = 1)]
    /\ UNCHANGED <<now, rss_feeds, rss_entries, rss_locks, call, hist, nticks, nerrors,
                   pool, friends, comments>>

NextPage == PaginateRequest

SpecPage == InitPage /\ [][NextPage]_vars

\* ------------------------------------------------------------ observations
\* the call has not made its first query
NotStarted(c) == call[c].pc = "lookup"
\* the call has returned or thrown
Done(c) == call[c].pc = "done"
\* no other call has started: c runs alone
Alone(c) == \A d \in Callers \ {c} : NotStarted(d)
\* the two calls were in progress at the same time
Overlapped(a, b) ==
    /\ ~NotStarted(a) /\ ~NotStarted(b)
    /\ a \notin hist[b].after /\ b \notin hist[a].after
\* the call is inside the try block that the lock guards (acquire returned
\* true and releaseFeedRefreshLock has not run)
InTry(c) ==
    \/ call[c].pc \in {"recheck", "release"}
    \/ call[c].pc \in {"fetch", "storeSelect", "storeWrite"} /\ call[c].ctx = "lock"
\* the lookup found a row fetched less than four hours before
SawFresh(c) ==
    hist[c].lookup = "found" /\ call[c].currentTime - hist[c].seen < FourHoursInMs
\* the lookup found a row fetched four hours before or earlier
SawStale(c) ==
    hist[c].lookup = "found" /\ call[c].currentTime - hist[c].seen >= FourHoursInMs
\* the list is ordered by publication date, newest first
NewestFirst(items) ==
    \A i, j \in 1..Len(items) : i < j => items[i].pubDate >= items[j].pubDate

\* ------------------------------------------------------------------ claims

\* C1: at most one caller holds the refresh lock of a feed URL: no two callers
\* are both inside the guarded block, each having got true from
\* acquireFeedRefreshLock, while neither hold has reached its expiry.
C1_AtMostOneHolder ==
    \A a, b \in Callers :
        (a # b /\ InTry(a) /\ call[a].lockAcquired /\ now < call[a].expiryTime)
            => ~(InTry(b) /\ call[b].lockAcquired /\ now < call[b].expiryTime)

\* C2: of two concurrent getRSSEntries calls that both found the feed at
\* least four hours old (entries being stored, no store access rejecting and
\* every fetch yielding items), the two do not both make an outbound fetch.
C2_OneFetchOfTwoStaleCalls ==
    \A a, b \in Callers :
        (/\ a # b /\ SawStale(a) /\ SawStale(b) /\ Overlapped(a, b)
         /\ hist[a].stored > 0 /\ hist[b].stored > 0
         /\ ~hist[a].dbFailed /\ ~hist[b].dbFailed
         /\ ~hist[a].fetchFailed /\ ~hist[b].fetchFailed)
            => ~(/\ hist[a].fetches > 0 /\ hist[a].got > 0
                 /\ hist[b].fetches > 0 /\ hist[b].got > 0)

\* C3: getRSSEntries never throws: whatever store accesses reject, whatever
\* the fetches yield and whatever the lock does, a call that is over has
\* returned a list (possibly empty), and a call that is not over is suspended
\* at one of its awaits.
C3_NeverThrows ==
    \A c \in Callers :
        /\ call[c].outcome # "threw"
        /\ Done(c) => (/\ call[c].outcome = "returned"
                       /\ DOMAIN call[c].result = 1..Len(call[c].result))
        /\ ~Done(c) => (/\ call[c].outcome = "none"
                        /\ call[c].pc \in DbSites \cup {"fetch", "lastResort"})

\* C3 witness: a call returned although the re-check under the lock rejected
C3_Witness ==
    \E c \in Callers :
        /\ Done(c) /\ call[c].outcome = "returned" /\ hist[c].dbFailed
        /\ call[c].lockAcquired /\ hist[c].path = "lastResort"

C5_SecondCallIsCacheRead ==
    \A a, b \in Callers :
        (/\ a # b /\ a \in hist[b].after /\ Done(a) /\ Done(b)
         /\ ~hist[a].dbFailed /\ ~hist[b].dbFailed
         /\ call[b].currentTime - call[a].currentTime < FourHoursInMs)
            => /\ hist[b].fetches = 0 /\ hist[b].writes = 0
               /\ hist[a].fetches + hist[b].fetches <= 1

\* C5 amended: when the first of two sequential calls less than four hours
\* apart has written its refresh to the store (no store access of the second
\* rejecting), the second call finds the feed fresh, tries no lock, makes no
\* fetch and no store write and returns the stored rows; the first call has
\* made one or two fetches.
C5_SecondCallAfterRefresh ==
    \A a, b \in Callers :
        (/\ a # b /\ a \in hist[b].after /\ hist[a].writes > 0
         /\ hist[b].lookup # "none" /\ ~hist[b].dbFailed
         /\ call[b].currentTime - call[a].currentTime < FourHoursInMs)
            => /\ SawFresh(b)
               /\ hist[b].acquires = 0 /\ hist[b].writes = 0 /\ hist[b].fetches = 0
               /\ Done(b) => hist[b].path = "store"
               /\ hist[a].fetches \in {1, 2}

\* C5 witness: the second call returned the rows the first call's refresh stored
C5_Witness ==
    \E a, b \in Callers :
        /\ a # b /\ a \in hist[b].after /\ hist[a].writes > 0 /\ hist[a].fetches > 0
        /\ Done(b) /\ hist[b].path = "store" /\ hist[b].fetches = 0

\* C6: every list getRSSEntries returns is ordered newest first.
C6_ResultNewestFirst ==
    \A c \in Callers :
        (Done(c) /\ call[c].outcome = "returned") => NewestFirst(call[c].result)

\* C7: a single call for a feed URL never seen, whose fetch yields n >= 1
\* items, no lock row existing and no store access rejecting: one feed row is
\* created, the lock is acquired and released, the n entries are inserted,
\* last_fetched is the time of the call, and all n are returned newest first.
C7_FirstCallOfNewFeed ==
    \A c \in Callers :
        (/\ Done(c) /\ Alone(c) /\ hist[c].lookup = "absent" /\ ~hist[c].dbFailed
         /\ ~hist[c].fetchFailed /\ hist[c].got >= 1)
            => /\ Cardinality(rss_feeds) = 1
               /\ call[c].lockAcquired /\ hist[c].releases = 1 /\ rss_locks = {}
               /\ Len(rss_entries) = hist[c].got
               /\ \A r \in rss_feeds :
                     r.last_fetched >= call[c].currentTime /\ r.last_fetched <= now
               /\ Len(call[c].result) = hist[c].got
               /\ \A i \in 1..Len(rss_entries) :
                     \E j \in 1..Len(call[c].result) :
                        /\ rss_entries[i].guid = call[c].result[j].guid
                        /\ rss_entries[i].pub_date = call[c].result[j].pubDate
               /\ NewestFirst(call[c].result)

\* C8: when the fetch of a stale feed fails, the call returns exactly the
\* entries already stored if there are any, and a single synthetic error entry
\* only if none was stored.
C8_FailedFetchFallsBack ==
    \A c \in Callers :
        (/\ Done(c) /\ Alone(c) /\ SawStale(c) /\ ~hist[c].dbFailed
         /\ hist[c].fetchFailed)
            => IF hist[c].stored > 0
               THEN /\ Len(call[c].result) = hist[c].stored
                    /\ \A i \in 1..Len(call[c].result) : call[c].result[i].guid[1] # "error"
               ELSE /\ Len(call[c].result) = 1
                    /\ call[c].result[1].guid[1] = "error"

\* C9: a call that acquired the refresh lock calls releaseFeedRefreshLock
\* exactly once before it leaves the guarded block, on every outcome; a call
\* that did not acquire it never calls it.
C9_ReleaseIffAcquired ==
    \A c \in Callers :
        hist[c].releases =
            IF call[c].lockAcquired /\ ~(InTry(c) /\ call[c].pc # "done") THEN 1 ELSE 0

\* C9 witness: the lock was released although the upsert under it rejected
C9_Witness ==
    \E c \in Callers :
        /\ Done(c) /\ call[c].lockAcquired /\ hist[c].releases = 1
        /\ hist[c].dbFailed /\ hist[c].fetches = 1 /\ hist[c].writes = 0
        /\ hist[c].path = "store"

\* C10: no two rss_entries rows of the same feed share a guid.
C10_GuidUniquePerFeed ==
    \A i, j \in 1..Len(rss_entries) :
        (i # j /\ rss_entries[i].feed_id = rss_entries[j].feed_id)
            => rss_entries[i].guid # rss_entries[j].guid

\* C11: a refresh never modifies or deletes a stored entry: every step keeps
\* each row of rss_entries as it is, in its place, so the guids stored for a
\* feed only grow.
C11_EntriesAppendOnly ==
    [][/\ Len(rss_entries') >= Len(rss_entries)
       /\ \A i \in 1..Len(rss_entries) : rss_entries'[i] = rss_entries[i]
       /\ SelectGuids(1) \subseteq SelectGuids(1)']_vars

\* C11 witness: a refresh that carried a stored guid under another date and
\* description was written; the stored row is as it was and the new guid is
\* appended
C11_Witness ==
    /\ \E c \in Callers : hist[c].writes > 0 /\ hist[c].stored = 1 /\ hist[c].got = 2
    /\ Len(rss_entries) = 2
    /\ rss_entries[1] = EntryRow(1, ItemOld)
    /\ rss_entries[2].guid = ItemNew.guid

\* the call asked for the refresh lock and did not get it (the upsert changed
\* no row, or rejected)
LockRefused(c) == hist[c].acquires = 1 /\ ~call[c].lockAcquired

\* C12 as stated: a call that needed a refresh and did not get the lock makes
\* no outbound fetch and returns the stored entries.
C12_NoFetchWithoutLock ==
    \A c \in Callers :
        LockRefused(c) => /\ hist[c].fetches = 0
                          /\ Done(c) => hist[c].path = "store"

\* C12 amended: a call that needed a refresh and did not get the lock never
\* fetches under the lock and never releases; when entries were stored and its
\* entries read does not reject it makes no fetch and returns stored rows;
\* otherwise it makes one fetch (the empty-store fallback or the last resort).
C12_ServesStoreWithoutLock ==
    \A c \in Callers :
        LockRefused(c) =>
            /\ ~InTry(c) /\ call[c].ctx # "lock" /\ hist[c].releases = 0
            /\ hist[c].fetches <= 1
            /\ (hist[c].stored > 0 /\ call[c].pc # "lastResort" /\ hist[c].path # "lastResort")
                  => (hist[c].fetches = 0 /\ (Done(c) => hist[c].path = "store"))
            /\ (Done(c) /\ hist[c].path = "store") =>
                  /\ hist[c].fetches = 0 /\ hist[c].writes = 0
                  /\ Len(call[c].result) >= 1
                  /\ \A i \in 1..Len(call[c].result) :
                        \E j \in 1..Len(rss_entries) :
                           /\ rss_entries[j].guid = call[c].result[i].guid
                           /\ rss_entries[j].description = call[c].result[i].description
                           /\ rss_entries[j].pub_date = call[c].result[i].pubDate

\* C12 witness: the upsert changed no row (another call holds the lock) and
\* the call returned the stored rows without a fetch
C12_Witness ==
    \E c \in Callers :
        /\ LockRefused(c) /\ ~hist[c].lockError /\ Done(c)
        /\ hist[c].path = "store" /\ hist[c].fetches = 0 /\ Len(call[c].result) >= 1

\* the lock row of the feed URL that the last lock operation found
RowBefore == {r \in probe.before : r.lock_key = LockKey(FeedUrl)}

\* C13: an acquireFeedRefreshLock that finds a lock row whose expires_at has
\* passed returns true and installs an expiry 60 seconds after the attempt; an
\* attempt is refused only while the row it finds has not expired, so a holder
\* that never releases blocks others for at most 60 seconds.
C13_ExpiredLockIsVacant ==
    probe.op = "acquire" =>
        /\ (\E r \in RowBefore : r.expires_at < probe.at) =>
              /\ probe.result
              /\ rss_locks = {[lock_key |-> LockKey(FeedUrl),
                               expires_at |-> probe.at + LockExpiryMs]}
        /\ ~probe.result => \E r \in RowBefore : probe.at <= r.expires_at

\* C13 witness: a row left by a holder that never released was reclaimed
\* after its expiry
C13_Witness ==
    /\ probe.op = "acquire" /\ probe.result
    /\ \E r \in RowBefore : r.expires_at < probe.at
    /\ \E r \in rss_locks : r.expires_at = probe.at + LockExpiryMs

\* C20: an acquireFeedRefreshLock made while the lock row of the URL has not
\* expired leaves the row untouched.
C20_UnexpiredRowUntouched ==
    (probe.op = "acquire" /\ \E r \in RowBefore : probe.at < r.expires_at)
        => rss_locks = probe.before

\* C14: when the upsert of acquireFeedRefreshLock rejects, the call gets
\* false and nothing is thrown: the caller is never inside the guarded block,
\* makes no fetch under the lock, issues no release, and goes on to the
\* entries read.
C14_LockErrorIsRefusal ==
    \A c \in Callers :
        hist[c].lockError =>
            /\ ~call[c].lockAcquired /\ call[c].outcome # "threw"
            /\ ~InTry(c) /\ call[c].ctx # "lock" /\ hist[c].releases = 0
            /\ call[c].pc \in {"readEntries", "fetch", "storeSelect", "storeWrite",
                               "lastResort", "done"}

\* C14 witness: the upsert rejected and the call returned the stored rows
C14_Witness ==
    \E c \in Callers :
        /\ hist[c].lockError /\ Done(c) /\ call[c].outcome = "returned"
        /\ hist[c].path = "store" /\ hist[c].fetches = 0

\* C15: when a store access of getRSSEntries rejects and the outer catch runs,
\* the call makes the last-resort fetch and returns its items, and the empty
\* list if that fetch fails.
C15_LastResortReturnsItemsOrEmpty ==
    \A c \in Callers :
        (Done(c) /\ hist[c].path = "lastResort") =>
            /\ hist[c].dbFailed /\ call[c].outcome = "returned"
            /\ Len(call[c].result) = hist[c].got
            /\ (hist[c].fetches = 1 /\ hist[c].fetchFailed) => call[c].result = <<>>

\* how often the value occurs in the list
Count(list, v) == Cardinality({i \in 1..Len(list) : list[i] = v})

\* the two lists hold the same values the same number of times
SameEntries(l1, l2) ==
    /\ Len(l1) = Len(l2)
    /\ \A v \in Range(l1) \cup Range(l2) : Count(l1, v) = Count(l2, v)

\* the passed entries whose guid was not stored before the call
PassedNew == FilterSeq(probe.entries,
                 {e \in Range(probe.entries) :
                     \A i \in 1..Len(probe.before) : probe.before[i].guid # e.guid})

StandsFor(item, raw) ==
    IF raw.throws
    THEN item.guid[1] = "error" /\ item.title = "Error processing item"
    ELSE item.guid = raw.guid /\ item.title = raw.title

\* C17: fetchAndParseFeed never throws and returns either the fallback feed
\* with exactly one error item, or the nodes of the source in source order,
\* each with a non-empty guid and a non-empty title, the nodes left out being
\* exactly those that lack one of the two.
C17_ItemsInOrderOrFallback ==
    probe.op = "parse" =>
        IF probe.ok
        THEN /\ \A i \in 1..Len(probe.items) :
                   probe.items[i].guid # EmptyGuid /\ probe.items[i].title # ""
             /\ \E f \in [1..Len(probe.items) -> 1..Len(probe.doc.items)] :
                   /\ \A i, j \in 1..Len(probe.items) : i < j => f[i] < f[j]
                   /\ \A i \in 1..Len(probe.items) : StandsFor(probe.items[i], probe.doc.items[f[i]])
                   /\ \A n \in 1..Len(probe.doc.items) :
                         (\A i \in 1..Len(probe.items) : f[i] # n) =>
                            /\ ~probe.doc.items[n].throws
                            /\ \/ probe.doc.items[n].guid = EmptyGuid
                               \/ probe.doc.items[n].title = ""
        ELSE /\ Len(probe.items) = 1
             /\ probe.items[1].guid = <<"error", probe.at>>
             /\ probe.items = createFallbackFeed(probe.at)

\* C17 witness: of two nodes the first lacks a title and is dropped, the
\* second is returned
C17_Witness ==
    /\ probe.op = "parse" /\ probe.ok
    /\ Len(probe.doc.items) = 2 /\ Len(probe.items) = 1
    /\ probe.doc.items[1].title = "" /\ ~probe.doc.items[1].throws
    /\ probe.items[1].guid = probe.doc.items[2].guid
    /\ probe.items[1].title = "t"

\* C18: for an item with an enclosure whose type starts with "audio/", in
\* the single-object or the array form, extractImage never returns the URL of
\* that enclosure.
C18_AudioEnclosureNeverImage ==
    probe.op = "image" =>
        \A i \in 1..Len(probe.item.enclosures) :
            (IsAudio(probe.item.enclosures[i].type) /\ Truthy(probe.item.enclosures[i].url))
                => probe.result # probe.item.enclosures[i].url

\* the string is a valid ISO-8601 instant: date, time and the UTC designator
IsIsoInstantString(str) ==
    /\ str.kind = "dateTime" /\ str.zone = "Z"
    /\ str.day >= 0 /\ str.sec \in 0..86399 /\ str.frac \in 0..999

\* the instant the date and time written in the string denote when read as UTC
WrittenAsUtc(str) ==
    str.day * 86400000 + str.sec * 1000 + (IF str.frac < 0 THEN 0 ELSE str.frac)

\* C19: formatDate always returns a valid ISO-8601 instant string; an ISO
\* string without time zone is read as UTC, a date-only string as midnight
\* UTC, and garbage yields the current instant.
C19_FormatDateTotalAndUtc ==
    (probe.op = "formatDate" /\ probe.input.type = "string") =>
        LET str == probe.input.str
        IN /\ IsIsoInstantString(probe.result)
           /\ (str.kind = "dateTime" /\ str.zone = "none" /\ str.day >= 0)
                 => IsoInstant(probe.result) = WrittenAsUtc(str)
           /\ (str.kind = "date" /\ str.day >= 0)
                 => IsoInstant(probe.result) = str.day * 86400000
           /\ (str.kind = "garbage" \/ str.day < 0)
                 => probe.result = toISOString(probe.at)

\* the rows the batch of the call in progress inserts
BatchRows ==
    [i \in 1..Len(probe.newEntries) |-> EntryRow(probe.feedId, probe.newEntries[i])]
\* the stored tables are as they were when the call started
NothingStored ==
    rss_entries = probe.before.entries /\ rss_feeds = probe.before.feeds
\* every new entry and the timestamps of the feed are stored
AllStored ==
    /\ rss_entries = probe.before.entries \o BatchRows
    /\ rss_feeds = {IF r.id = probe.feedId
                    THEN [r EXCEPT !.last_fetched = probe.currentTimeMs]
                    ELSE r : r \in probe.before.feeds}

\* C21: the batch is all-or-nothing.  From the moment executeBatchTransaction
\* is entered the stored tables hold either nothing of the batch or all of it
\* (every new entry and the last_fetched of the feed); nothing is stored
\* before the commit; when a statement of the batch (a chunk INSERT or the
\* trailing UPDATE) rejected, nothing of it is stored; when the call returned,
\* all of it is stored.
C21_BatchAllOrNothing ==
    (probe.op = "store" /\ probe.batch) =>
        /\ NothingStored \/ AllStored
        /\ probe.pc \in {"b.getConnection", "b.begin", "b.query", "b.commit"} => NothingStored
        /\ probe.stmtFailed => NothingStored
        /\ (probe.pc = "done" /\ probe.outcome = "returned") => AllStored /\ ~NothingStored

\* C21 witness: a batch of two chunk INSERTs that succeeded and an UPDATE that
\* rejected is over, and the tables are as before
C21_Witness ==
    /\ probe.op = "store" /\ probe.batch /\ probe.pc = "done"
    /\ probe.stmtFailed /\ probe.applied = 2 /\ Len(probe.newEntries) > ChunkSize
    /\ probe.outcome = "threw" /\ NothingStored

\* C24: every connection obtained from the pool is released exactly once
\* before the operation returns or throws: the connections checked out are
\* the one the operation in progress holds, the releases made are the
\* connections obtained less the one still held, and between operations and
\* after the call no connection is checked out.
C24_ConnectionReleasedOnce ==
    probe.op = "store" =>
        LET out == {c \in Connections : pool[c].out}
        IN /\ out = IF probe.connection = 0 THEN {} ELSE {probe.connection}
           /\ probe.released = probe.obtained - Cardinality(out)
           /\ probe.pc \in {"idle", "done", "q.getConnection", "b.getConnection"} => out = {}

\* C24 witness: the call is over after two operations that each obtained a
\* connection, the second a batch whose statement and whose ROLLBACK rejected
C24_Witness ==
    /\ probe.op = "store" /\ probe.pc = "done" /\ probe.batch
    /\ probe.stmtFailed /\ probe.rollbackFailed
    /\ probe.obtained = 2 /\ probe.released = 2
    /\ \A c \in Connections : ~pool[c].out

\* the step in which call c leaves the refresh it made under the lock, its
\* fetch and parse having succeeded and no store access of it having rejected
RefreshEnds(c) ==
    /\ call[c].ctx = "lock" /\ call[c].pc \in {"fetch", "storeWrite"}
    /\ call'[c].pc = "release"
    /\ ~hist'[c].fetchFailed /\ ~hist'[c].dbFailed

\* C22 as stated: every refresh under the lock whose fetch and parse succeed
\* leaves the feed with a last_fetched set during the call, whether the
\* document held new entries, only stored ones, or none.
C22_EveryRefreshSetsLastFetched ==
    [][\A c \in Callers :
          RefreshEnds(c) =>
              \E r \in rss_feeds' :
                  r.id = call[c].feedId /\ r.last_fetched >= call[c].currentTime]_vars

\* C22 amended: a refresh under the lock whose fetch and parse yield at least
\* one valid item, and whose store accesses succeed, sets the last_fetched of
\* the feed to the instant taken before the write (within the call), whether
\* the items are new or all stored already; a refresh whose document yields
\* no valid item writes nothing and leaves rss_feeds as it was.
C22_RefreshWithItemsSetsLastFetched ==
    [][\A c \in Callers :
          RefreshEnds(c) =>
              IF hist'[c].got > 0
              THEN /\ call[c].pc = "storeWrite"
                   /\ \E r \in rss_feeds' : r.id = call[c].feedId
                   /\ \A r \in rss_feeds' :
                          r.id = call[c].feedId => r.last_fetched = call[c].storeTime
                   /\ call[c].currentTime <= call[c].storeTime
                   /\ call[c].storeTime <= now
              ELSE /\ call[c].pc = "fetch"
                   /\ rss_feeds' = rss_feeds /\ rss_entries' = rss_entries]_vars

\* C22 witness: a call has stored under the lock a document whose items were
\* all stored already: no row was added, and last_fetched is of the call's time
C22_Witness ==
    \E c \in Callers :
        /\ call[c].pc = "release" /\ call[c].ctx = "lock" /\ Alone(c)
        /\ hist[c].writes = 1 /\ hist[c].got > 0 /\ ~hist[c].fetchFailed
        /\ Len(rss_entries) = hist[c].stored
        /\ \E r \in rss_feeds : r.id = call[c].feedId /\ r.last_fetched >= call[c].currentTime

\* C23: the select-then-insert of feed creation never leaves two rss_feeds
\* rows for one URL; once every call is over, some call having found the URL
\* absent and no store access having failed but an INSERT refused as a
\* duplicate, exactly one row exists for the URL; and every call that is over
\* returned a list.
C23_OneFeedRowPerUrl ==
    /\ Cardinality(SelectFeeds(FeedUrl)) <= 1
    /\ \A r1, r2 \in rss_feeds : r1.id = r2.id => r1 = r2
    /\ ((\A c \in Callers : Done(c)) /\ (\E c \in Callers : hist[c].lookup = "absent")
            /\ nerrors = 0)
           => Cardinality(SelectFeeds(FeedUrl)) = 1
    /\ \A c \in Callers : Done(c) => call[c].outcome = "returned"

\* C23 witness: two overlapping calls both found the URL absent and both
\* reached the INSERT; the second INSERT was refused, that call returned the
\* items of its last-resort fetch, and one row exists
C23_Witness ==
    \E a, b \in Callers :
        /\ a # b /\ Done(a) /\ Done(b) /\ Overlapped(a, b) /\ nerrors = 0
        /\ hist[a].lookup = "absent" /\ hist[b].lookup = "absent"
        /\ hist[b].dbFailed /\ hist[b].path = "lastResort"
        /\ call[b].outcome = "returned" /\ ~hist[a].dbFailed
        /\ Cardinality(SelectFeeds(FeedUrl)) = 1

\* C27: a failed outbound fetch changes nothing in the store: for a call that
\* runs alone and one of whose fetches failed, rss_entries holds the rows it
\* held when the call started, none of them an error item, and the feed the
\* lookup found keeps the last_fetched the lookup saw.
C27_FailedFetchStoresNothing ==
    \A c \in Callers :
        (Alone(c) /\ hist[c].fetchFailed) =>
            /\ Len(rss_entries) = hist[c].stored
            /\ \A i \in 1..Len(rss_entries) : rss_entries[i].guid[1] # "error"
            /\ hist[c].lookup = "found" =>
                   \A r \in rss_feeds : r.id = call[c].feedId => r.last_fetched = hist[c].seen

\* C28: releaseFeedRefreshLock removes only a lock its caller still holds:
\* when the hold of the releasing caller had expired and another caller
\* reclaimed the lock after that expiry, the release leaves the row of the
\* other caller in rss_locks.
C28_ReleaseOnlyOwnLock ==
    probe.op = "release" =>
        \A d \in Callers \ {probe.by} :
            LET row == [lock_key |-> LockKey(FeedUrl), expires_at |-> call[d].expiryTime]
            IN (/\ call[d].lockAcquired
                /\ probe.held < call[d].expiryTime - LockExpiryMs
                /\ row \in probe.before)
                   => row \in rss_locks

\* the document the last mutation was called on, in the table it ran on
Target == {f \in probe.before : f._id = probe.arg}

\* C25: acceptFriendRequest changes a status only from "pending" to
\* "accepted" and only for the requestee: it throws exactly when the caller is
\* unauthenticated, the document is missing, the caller is not its requestee
\* or its status is not pending, and then the table is unchanged; otherwise
\* the one document goes from pending to accepted and nothing else changes.
C25_AcceptOnlyPendingByRequestee ==
    probe.op = "accept" =>
        LET refused == \/ probe.by = NullUser
                       \/ Target = {}
                       \/ \E f \in Target : f.requesteeId # probe.by
                       \/ \E f \in Target : f.status # "pending"
        IN /\ (probe.error # "none") <=> refused
           /\ refused => friends = probe.before
           /\ ~refused =>
                \E f \in Target :
                    /\ f.status = "pending" /\ f.requesteeId = probe.by
                    /\ \E g \in friends :
                          /\ g._id = f._id /\ g.status = "accepted"
                          /\ g.requesterId = f.requesterId /\ g.requesteeId = f.requesteeId
                          /\ friends \ {g} = probe.before \ {f}

\* C25 witness: the requestee accepted a pending request
C25_Witness ==
    /\ probe.op = "accept" /\ probe.error = "none"
    /\ \E f \in Target : f.status = "pending" /\ f.requesteeId = probe.by
    /\ \E g \in friends : g._id = probe.arg /\ g.status = "accepted"

\* the two documents are of the same unordered pair of users
SamePair(f, g) ==
    {f.requesterId, f.requesteeId} = {g.requesterId, g.requesteeId}

\* C29: after any sequence of sendFriendRequest, acceptFriendRequest and
\* deleteFriendship calls at most one friends document exists per unordered
\* pair of users and none has requesterId = requesteeId; a sendFriendRequest
\* towards a user whose pending request to the caller exists accepts that
\* document and inserts none.
C29_OneFriendshipPerPair ==
    /\ \A f, g \in friends : SamePair(f, g) => f = g
    /\ \A f \in friends : f.requesterId # f.requesteeId
    /\ probe.op = "send" =>
          \A f \in probe.before :
              (f.requesterId = probe.arg /\ f.requesteeId = probe.by /\ f.status = "pending")
                  => /\ probe.error = "none"
                     /\ \E g \in friends : g._id = f._id /\ g.status = "accepted"
                     /\ {g._id : g \in friends} = {g._id : g \in probe.before}

\* C29 witness: a sendFriendRequest met the pending request of the other user
\* and accepted it
C29_Witness ==
    /\ probe.op = "send" /\ probe.error = "none"
    /\ \E f \in probe.before :
          /\ f.requesterId = probe.arg /\ f.requesteeId = probe.by /\ f.status = "pending"
          /\ \E g \in friends : g._id = f._id /\ g.status = "accepted"
    /\ Cardinality(friends) = Cardinality(probe.before)

\* the comments of the table whose chain of parentId links leads to one of
\* the ids, in at most n links
RECURSIVE Under(_, _, _)
Under(table, ids, n) ==
    IF n = 0 THEN {}
    ELSE LET direct == {c \in table : c.parentId \in ids}
         IN direct \cup Under(table, {c._id : c \in direct}, n - 1)

\* C26: after deleteComment(c) by the author of c, neither c nor any comment
\* whose chain of parentId links leads to c is stored, and every other
\* comment is stored as before; a call that throws (caller unauthenticated,
\* comment missing, caller not the author) deletes nothing, and it throws
\* exactly then; every stored reply has a stored parent inserted before it, so
\* the recursion over the replies ends.
C26_DeleteRemovesSubtreeOnly ==
    /\ \A c \in comments :
          c.parentId # 0 => (c.parentId < c._id /\ CommentById(comments, c.parentId) # {})
    /\ probe.op = "delete" =>
          LET target == CommentById(probe.before, probe.arg)
              refused == \/ probe.by = NullUser
                         \/ target = {}
                         \/ \E c \in target : c.userId # probe.by
          IN /\ (probe.error # "none") <=> refused
             /\ refused => comments = probe.before
             /\ ~refused =>
                  comments = probe.before \
                      (target \cup Under(probe.before, {probe.arg}, MaxComments))

\* C26 witness: the author deleted a comment that had a reply with a reply of
\* its own, written by another user
C26_Witness ==
    /\ probe.op = "delete" /\ probe.error = "none"
    /\ \E r1, r2 \in probe.before :
          /\ r1.parentId = probe.arg /\ r2.parentId = r1._id
          /\ r1.userId # probe.by
    /\ comments = {}

\* C30: a client that asks for page 1 and then the following pages with a
\* fixed pageSize, passing back the totalEntries it received, and stops when
\* hasMore is false, has then received every stored entry exactly once (the
\* entries in the order of the query).
C30_EveryEntryOnce ==
    (probe.op = "paginate" /\ probe.page > 0 /\ probe.passedBack /\ ~probe.hasMore)
        => probe.received = [i \in 1..Len(JoinedEntries) |-> JoinedEntries[i].guid]

====
